---- MODULE Spec2Model ----
(***************************************************************************)
(* A model of the record-linkage core of university_prices_ratings:        *)
(* StrictUniversityMatcher of src/fix_university_matching.py               *)
(* (canonicalize_name, compute_similarity_matrix, apply_gap_rule,          *)
(* match_universities), and of the percentile and value-score steps of     *)
(* the analysis scripts (comprehensive_analysis.py, real_data_analysis.py, *)
(* find_sweet_spot.py, real_sweet_spot_analysis.py,                        *)
(* final_analysis_scorecard_rankings.py), of the correlation summaries     *)
(* and prepare_data of plot_analysis.py and analyze_real_data.py, and of   *)
(* the request loops of the collectors (collect_real_data.py,              *)
(* collect_comprehensive_data.py, rebuild_with_real_data.py,               *)
(* get_bulk_scorecard_data.py, implement_scorecard_ranking_system.py).     *)
(*                                                                         *)
(* Strings are sequences of characters; a character is a one-letter string *)
(* ("a", "&", " "), or the code point of a non-ASCII character written     *)
(* "U+xxxx".  Similarity scores are whole percents, rounded down; 0 and 100 *)
(* are exact.                                                              *)
(***************************************************************************)
EXTENDS Integers, Sequences, FiniteSets, TLC

VARIABLES
    name,               \* canonicalize_name: the argument
    canon,              \* canonicalize_name: the value returned
    cpc,                \* position of the canonicalization run
    other,              \* canonicalize_name: the argument of a second call
    other_canon,        \* canonicalize_name: the value the second call returned
    arwu_names,         \* match_universities: list(self.arwu_rankings.keys())
    scorecard_names,    \* match_universities: scorecard_df['school_name'].tolist()
    similarity_matrix,  \* the matrix compute_similarity_matrix returned
    sim_path,           \* which return path of compute_similarity_matrix was taken
    filtered_matrix,    \* the copy whose unconfident rows are zeroed
    valid_pairs,        \* rows that passed threshold and gap rule
    assignment,         \* (arwu_indices, scorecard_indices) of the solver
    matches,            \* the accepted matches, in the order appended
    unmatched_log,      \* what logger.info shows of the unmatched ARWU names
    matched_data,       \* the rows of the DataFrame handed back to the caller
    pc,                 \* position of match_universities
    analyzer,           \* the analysis script that runs
    df,                 \* its DataFrame as loaded: one record per row
    scores,             \* the columns it computes, one record per row of df
    correlations,       \* the groups whose correlation coefficients it reports
    combined_data,      \* the table prepare_data builds of the US and UK files
    apc,                \* position of the analysis
    collector,          \* the collector function that runs
    http_log,           \* what it did on the network, in order
    page,               \* its loop counter
    collected,          \* the rows it has gathered so far
    returned,           \* the table it returned
    limit,              \* the bound of its loop: len(universities), max_pages
    kpc                 \* position of the collector

canonVars == <<name, canon, cpc, other, other_canon>>
matchVars == <<arwu_names, scorecard_names, similarity_matrix, sim_path,
               filtered_matrix, valid_pairs, assignment, matches,
               unmatched_log, matched_data, pc>>
analyzerVars == <<analyzer, df, scores, correlations, combined_data, apc>>
collectorVars == <<collector, http_log, page, collected, returned, limit, kpc>>
vars == <<name, canon, cpc, other, other_canon, arwu_names, scorecard_names,
          similarity_matrix, sim_path, filtered_matrix, valid_pairs,
          assignment, matches, unmatched_log, matched_data, pc,
          analyzer, df, scores, correlations, combined_data, apc,
          collector, http_log, page, collected, returned, limit, kpc>>

(***************************************************************************)
(* Bounds of the model.                                                    *)
(***************************************************************************)
MaxPieces == 3

MaxRows == 3

MaxCols == 2

MaxCells == 6

MaxArwu == 2

MaxScorecard == 2

MaxWords == 3

MaxRecords == 3

(***************************************************************************)
(* Generic helpers on sequences.                                           *)
(***************************************************************************)
Range(s) == {s[k] : k \in DOMAIN s}

RECURSIVE Concat(_)
Concat(ss) == IF ss = <<>> THEN <<>> ELSE Head(ss) \o Concat(Tail(ss))

Max2(a, b) == IF a >= b THEN a ELSE b

Min2(a, b) == IF a <= b THEN a ELSE b

(***************************************************************************)
(* Characters.  CodeOrder lists the ASCII word characters (regex \w) in    *)
(* code-point order, which is the order sorted() compares strings by.      *)
(***************************************************************************)
UpperChars == <<"A","B","C","D","E","F","G","H","I","J","K","L","M",
                "N","O","P","Q","R","S","T","U","V","W","X","Y","Z">>

LowerChars == <<"a","b","c","d","e","f","g","h","i","j","k","l","m",
                "n","o","p","q","r","s","t","u","v","w","x","y","z">>

CodeOrder == <<"0","1","2","3","4","5","6","7","8","9">> \o UpperChars
                 \o <<"_">> \o LowerChars

Ord(c) == CHOOSE k \in DOMAIN CodeOrder : CodeOrder[k] = c

IsWord(c) == c \in Range(CodeOrder)

IsSpace(c) == c \in {" ", "\t", "\n"}

\* The missing value (None / NaN) pd.isna recognises.
NaN == <<"NaN">>

\* str.lower() of one character.
LowerChar(c) ==
    IF c \in Range(UpperChars)
    THEN LowerChars[CHOOSE k \in DOMAIN UpperChars : UpperChars[k] = c]
    ELSE IF c = "U+00C9" THEN "U+00E9"
    ELSE c

StrLower(s) == [k \in DOMAIN s |-> LowerChar(s[k])]

\* str.strip(): leading and trailing whitespace removed.
RECURSIVE LStrip(_)
LStrip(s) == IF s # <<>> /\ IsSpace(Head(s)) THEN LStrip(Tail(s)) ELSE s

RECURSIVE RStrip(_)
RStrip(s) ==
    IF s # <<>> /\ IsSpace(s[Len(s)]) THEN RStrip(SubSeq(s, 1, Len(s) - 1)) ELSE s

Strip(s) == RStrip(LStrip(s))

\* unidecode of one character: ASCII is kept, a letter with a diacritic
\* becomes its base letter, a CJK ideograph becomes its capitalised
\* romanisation followed by a space.
UnidecodeChar(c) ==
    CASE c = "U+00E9" -> <<"e">>
      [] c = "U+00C9" -> <<"E">>
      [] c = "U+5317" -> <<"B", "e", "i", " ">>
      [] OTHER -> <<c>>

Unidecode(s) == Concat([k \in DOMAIN s |-> UnidecodeChar(s[k])])

(***************************************************************************)
(* The dictionaries of StrictUniversityMatcher.__init__.                   *)
(***************************************************************************)
stop_words ==
    { <<"u","n","i","v","e","r","s","i","t","y">>,
      <<"c","o","l","l","e","g","e">>,
      <<"s","c","h","o","o","l">>,
      <<"i","n","s","t","i","t","u","t","e">>,
      <<"i","n","s","t","i","t","u","t","i","o","n">>,
      <<"o","f">>, <<"t","h","e">>, <<"a","t">>, <<"f","o","r">>,
      <<"a","n","d">>, <<"i","n">>, <<"o","n">>,
      <<"s","t","a","t","e">>,
      <<"s","y","s","t","e","m">>,
      <<"c","a","m","p","u","s">>,
      <<"m","a","i","n">>,
      <<"b","r","a","n","c","h">> }

\* In insertion order, the order .items() yields them in.
abbreviations ==
    << << <<"u","n","i","v">>, <<"u","n","i","v","e","r","s","i","t","y">> >>,
       << <<"i","n","s","t">>, <<"i","n","s","t","i","t","u","t","e">> >>,
       << <<"t","e","c","h">>, <<"t","e","c","h","n","o","l","o","g","y">> >>,
       << <<"s","c","i">>, <<"s","c","i","e","n","c","e">> >>,
       << <<"e","n","g">>, <<"e","n","g","i","n","e","e","r","i","n","g">> >>,
       << <<"&">>, <<"a","n","d">> >>,
       << <<"u">>, <<"u","n","i","v","e","r","s","i","t","y">> >>,
       << <<"c","a","l","i","f">>, <<"c","a","l","i","f","o","r","n","i","a">> >>,
       << <<"p","e","n","n">>,
          <<"p","e","n","n","s","y","l","v","a","n","i","a">> >> >>

(***************************************************************************)
(* canonicalize_name.                                                      *)
(***************************************************************************)
\* The regex \b at position p of s: between s[p-1] and s[p], exactly one
\* of which is a word character (the ends of s count as non-word).
WordBoundary(s, p) ==
    LET before == p > 1 /\ p - 1 <= Len(s) /\ IsWord(s[p - 1])
        after  == p >= 1 /\ p <= Len(s) /\ IsWord(s[p])
    IN  before # after

\* rf'\b{re.escape(abbr)}\b' matches s at position p.
MatchAt(abbr, s, p) ==
    /\ p + Len(abbr) - 1 <= Len(s)
    /\ SubSeq(s, p, p + Len(abbr) - 1) = abbr
    /\ WordBoundary(s, p)
    /\ WordBoundary(s, p + Len(abbr))

\* re.sub: leftmost non-overlapping matches, scanning from position p.
RECURSIVE SubFrom(_, _, _, _)
SubFrom(abbr, full, s, p) ==
    IF p > Len(s) THEN <<>>
    ELSE IF MatchAt(abbr, s, p)
         THEN full \o SubFrom(abbr, full, s, p + Len(abbr))
         ELSE <<s[p]>> \o SubFrom(abbr, full, s, p + 1)

\* The loop over self.abbreviations.items(), entries k..end.
RECURSIVE ExpandAbbreviations(_, _)
ExpandAbbreviations(s, k) ==
    IF k > Len(abbreviations) THEN s
    ELSE ExpandAbbreviations(
             SubFrom(abbreviations[k][1], abbreviations[k][2], s, 1), k + 1)

\* re.sub(r'[^\w\s]', ' ', name)
RemovePunctuation(s) ==
    [k \in DOMAIN s |-> IF IsWord(s[k]) \/ IsSpace(s[k]) THEN s[k] ELSE " "]

\* re.sub(r'\s+', ' ', name)
RECURSIVE CollapseSpaces(_)
CollapseSpaces(s) ==
    IF s = <<>> THEN <<>>
    ELSE IF IsSpace(Head(s))
         THEN <<" ">> \o CollapseSpaces(LStrip(s))
         ELSE <<Head(s)>> \o CollapseSpaces(Tail(s))

\* str.split(): the maximal runs of non-whitespace; cur is the run being read.
RECURSIVE SplitFrom(_, _)
SplitFrom(s, cur) ==
    IF s = <<>> THEN (IF cur = <<>> THEN <<>> ELSE <<cur>>)
    ELSE IF IsSpace(Head(s))
         THEN (IF cur = <<>> THEN <<>> ELSE <<cur>>) \o SplitFrom(Tail(s), <<>>)
         ELSE SplitFrom(Tail(s), Append(cur, Head(s)))

Split(s) == SplitFrom(s, <<>>)

\* Python's str comparison a <= b, by code point.
RECURSIVE StrLeq(_, _)
StrLeq(a, b) ==
    IF a = <<>> THEN TRUE
    ELSE IF b = <<>> THEN FALSE
    ELSE IF Head(a) = Head(b) THEN StrLeq(Tail(a), Tail(b))
    ELSE Ord(Head(a)) < Ord(Head(b))

\* sorted(tokens): insertion into an already sorted list.
RECURSIVE InsertSorted(_, _)
InsertSorted(t, ts) ==
    IF ts = <<>> THEN <<t>>
    ELSE IF StrLeq(t, Head(ts)) THEN <<t>> \o ts
    ELSE <<Head(ts)>> \o InsertSorted(t, Tail(ts))

\* The tokens left in the order they stand in the name.
KeptInOrder(ts) == ts

RECURSIVE Sorted(_)
Sorted(ts) == IF ts = <<>> THEN <<>> ELSE InsertSorted(Head(ts), Sorted(Tail(ts)))

\* ' '.join(tokens)
RECURSIVE Join(_)
Join(ts) ==
    IF ts = <<>> THEN <<>>
    ELSE IF Len(ts) = 1 THEN Head(ts)
    ELSE Head(ts) \o <<" ">> \o Join(Tail(ts))

\* The list comprehension of step 4 without its stop-word test.
KeepsStopWords(ts) == SelectSeq(ts, LAMBDA t : t # <<>>)

\* The list comprehension of step 4.
RemoveStopWords(ts) == SelectSeq(ts, LAMBDA t : t # <<>> /\ t \notin stop_words)

\* Step 1: unidecode(name.lower().strip())
BasicCleaning(s) == Unidecode(Strip(StrLower(s)))

\* Steps 1 to 4: the tokens that survive, in the order they stand in the name.
SurvivingTokens(s) ==
    LET cleaned  == BasicCleaning(s)
        expanded == ExpandAbbreviations(cleaned, 1)
        spaced   == CollapseSpaces(RemovePunctuation(expanded))
    IN  RemoveStopWords(Split(spaced))

CanonicalForm(s) ==
    IF s = NaN THEN <<>>
    ELSE Join(Sorted(SurvivingTokens(s)))

\* The raw names the matcher runs draw their lists from.
NamePool ==
    { NaN,
      <<"U","n","i","v","e","r","s","i","t","y">>,
      <<"U","n","i","v","e","r","s","i","t","y"," ","o","f"," ","Y","o","r","k">>,
      <<"Y","o","r","k"," ","C","o","l","l","e","g","e">>,
      <<"N","e","w"," ","Y","o","r","k"," ","U","n","i","v","e","r","s","i","t","y">>,
      <<"Y","a","l","e">> }

\* The canonical forms of the names of NamePool, computed once.
CanonOfPool == [nm \in NamePool |-> CanonicalForm(nm)]

canonicalize_name(s) == IF s \in NamePool THEN CanonOfPool[s] ELSE CanonicalForm(s)

(***************************************************************************)
(* Inputs of the canonicalization runs: up to MaxPieces pieces glued       *)
(* together, or the missing value.                                         *)
(***************************************************************************)
Pieces ==
    { <<" ">>, <<".">>, <<"&">>, <<"U">>, <<"s">>,
      <<"u","n","i","v">>, <<"t","e","c","h">>, <<"o","f">>,
      <<"Y","o","r","k">>, <<"U+00E9">>, <<"U+5317">> }

RECURSIVE Glued(_)
Glued(n) ==
    IF n = 0 THEN {<<>>}
    ELSE LET shorter == Glued(n - 1)
         IN  shorter \cup {p \o s : p \in Pieces, s \in shorter}

CanonInputs == Glued(MaxPieces) \cup {NaN}

(***************************************************************************)
(* The matcher is idle while canonicalization runs are explored.           *)
(***************************************************************************)
MatchIdle ==
    /\ arwu_names = <<>>
    /\ scorecard_names = <<>>
    /\ similarity_matrix = <<>>
    /\ sim_path = "none"
    /\ filtered_matrix = <<>>
    /\ valid_pairs = <<>>
    /\ assignment = <<>>
    /\ matches = <<>>
    /\ unmatched_log = <<>>
    /\ matched_data = <<>>
    /\ pc = "idle"

\* No analysis script runs while the matcher is explored.
CollectorIdle ==
    /\ collector = "none"
    /\ http_log = <<>>
    /\ page = 0
    /\ collected = <<>>
    /\ returned = <<>>
    /\ limit = 0
    /\ kpc = "idle"

AnalyzerIdle ==
    /\ analyzer = "none"
    /\ df = <<>>
    /\ scores = <<>>
    /\ correlations = <<>>
    /\ combined_data = <<>>
    /\ apc = "idle"

CanonIdle ==
    /\ name = <<>>
    /\ canon = <<>>
    /\ other = <<>>
    /\ other_canon = <<>>
    /\ cpc = "idle"

(***************************************************************************)
(* Canonicalization runs: canonicalize_name(s), then canonicalize_name of  *)
(* the value it returned.                                                  *)
(***************************************************************************)
InitCanon ==
    /\ name \in CanonInputs
    /\ canon = <<>>
    /\ other = <<>>
    /\ other_canon = <<>>
    /\ cpc = "input"
    /\ MatchIdle
    /\ AnalyzerIdle
    /\ CollectorIdle

Canonicalize ==
    /\ cpc = "input"
    /\ canon' = canonicalize_name(name)
    /\ cpc' = "once"
    /\ UNCHANGED <<name, other, other_canon>>
    /\ UNCHANGED matchVars
    /\ UNCHANGED <<analyzerVars, collectorVars>>

Recanonicalize ==
    /\ cpc = "once"
    /\ name' = canon
    /\ canon' = canonicalize_name(canon)
    /\ cpc' = "twice"
    /\ UNCHANGED <<other, other_canon>>
    /\ UNCHANGED matchVars
    /\ UNCHANGED <<analyzerVars, collectorVars>>

NextCanon == Canonicalize \/ Recanonicalize

SpecCanon == InitCanon /\ [][NextCanon]_vars

(***************************************************************************)
(* Two calls of canonicalize_name on names made of the same words in a     *)
(* different order, with or without a stop word put in between.            *)
(***************************************************************************)
WordPool ==
    { <<"N","e","w">>, <<"Y","o","r","k">>, <<"C","i","t","y">>,
      <<"C","o","l","l","e","g","e">> }

Filler == <<"o","f">>

RECURSIVE WordLists(_)
WordLists(n) ==
    IF n = 0 THEN {<<>>}
    ELSE LET shorter == WordLists(n - 1)
         IN  shorter \cup {Append(l, w) : l \in shorter, w \in WordPool}

\* The word list ws in every order.
Reorderings(ws) ==
    {[k \in DOMAIN ws |-> ws[f[k]]] : f \in Permutations(DOMAIN ws)}

\* The word list ws with Filler put in after its first k words.
WithFiller(ws, k) == SubSeq(ws, 1, k) \o <<Filler>> \o SubSeq(ws, k + 1, Len(ws))

\* The names that say the words of ws in some order.
Rewordings(ws) ==
    LET orders == Reorderings(ws)
    IN  {Join(o) : o \in orders}
          \cup {Join(WithFiller(o, k)) : o \in orders, k \in 0..Len(ws)}

NewYorkCityCollege ==
    <<"N","e","w"," ","Y","o","r","k"," ","C","i","t","y"," ",
      "C","o","l","l","e","g","e">>

CityCollegeOfNewYork ==
    <<"C","i","t","y"," ","C","o","l","l","e","g","e"," ","o","f"," ",
      "N","e","w"," ","Y","o","r","k">>

InitPair ==
    /\ \/ \E ws \in WordLists(MaxWords) :
              /\ name = Join(ws)
              /\ other \in Rewordings(ws)
       \/ /\ name = NewYorkCityCollege
          /\ other = CityCollegeOfNewYork
    /\ canon = <<>>
    /\ other_canon = <<>>
    /\ cpc = "pair"
    /\ MatchIdle
    /\ AnalyzerIdle
    /\ CollectorIdle

CanonicalizeBoth ==
    /\ cpc = "pair"
    /\ canon' = canonicalize_name(name)
    /\ other_canon' = canonicalize_name(other)
    /\ cpc' = "both"
    /\ UNCHANGED <<name, other>>
    /\ UNCHANGED matchVars
    /\ UNCHANGED <<analyzerVars, collectorVars>>

NextPair == CanonicalizeBoth

SpecPair == InitPair /\ [][NextPair]_vars

(***************************************************************************)
(* match_universities: thresholds, gap rule, assignment, acceptance.       *)
(***************************************************************************)
MIN_SIMILARITY == 90

MIN_GAP == 5

\* logger.info shows unmatched_arwu[:10].
LogLimit == 10

Zeros(m) == [j \in 1..m |-> 0]

\* np.max(row) of a non-empty row.
RowMax(row) == CHOOSE v \in Range(row) : \A w \in Range(row) : w <= v

\* sorted(similarity_row, reverse=True)[1]: the largest value once one
\* occurrence of the maximum is set aside.
SecondBest(row) ==
    LET top  == CHOOSE k \in DOMAIN row : row[k] = RowMax(row)
        rest == {row[k] : k \in DOMAIN row \ {top}}
    IN  CHOOSE v \in rest : \A w \in rest : w <= v

apply_gap_rule(similarity_row, min_gap) ==
    IF Len(similarity_row) < 2 THEN TRUE
    ELSE RowMax(similarity_row) - SecondBest(similarity_row) >= min_gap

\* The condition of line 210 on row i.
PassesFilters(row) ==
    RowMax(row) >= MIN_SIMILARITY /\ apply_gap_rule(row, MIN_GAP)

\* FilterRow without the zeroing of line 215.
FilterRowKeepsAll(row) == row

\* Lines 210-215 for one row: kept, or zeroed out.
FilterRow(row) == IF PassesFilters(row) THEN row ELSE Zeros(Len(row))

\* cost_matrix = 100 - filtered_matrix
CostMatrix(F) == [i \in DOMAIN F |-> [j \in DOMAIN F[i] |-> 100 - F[i][j]]]

\* The one-to-one assignments of min(n, m) rows to columns: functions from
\* a set of rows to distinct columns.
Injections(n, m) ==
    LET k == Min2(n, m)
    IN  UNION { {f \in [S -> 1..m] : \A a, b \in S : a # b => f[a] # f[b]} :
                S \in {T \in SUBSET (1..n) : Cardinality(T) = k} }

RECURSIVE SumOver(_, _, _)
SumOver(C, f, S) ==
    IF S = {} THEN 0
    ELSE LET i == CHOOSE x \in S : TRUE
         IN  C[i][f[i]] + SumOver(C, f, S \ {i})

TotalCost(C, f) == SumOver(C, f, DOMAIN f)

\* Every row grabbing its own cheapest column instead of a joint optimum.
GreedyRowBest(C, n, m) ==
    {f \in [1..n -> 1..m] : \A i \in 1..n : \A j \in 1..m : C[i][f[i]] <= C[i][j]}

\* scipy.optimize.linear_sum_assignment(cost_matrix): every assignment of
\* minimal total cost is one the solver may return.
linear_sum_assignment(C, n, m) ==
    LET all == Injections(n, m)
    IN  {f \in all : \A g \in all : TotalCost(C, f) <= TotalCost(C, g)}

\* (arwu_indices, scorecard_indices) zipped: the pairs in row order.
RECURSIVE PairsOf(_, _)
PairsOf(f, S) ==
    IF S = {} THEN <<>>
    ELSE LET i == CHOOSE x \in S : \A y \in S : x <= y
         IN  <<[arwu_index |-> i, scorecard_index |-> f[i]]>> \o PairsOf(f, S \ {i})

\* The test of line 230 without the threshold.
AcceptsAnyScore(similarity) == similarity > 0

\* The test of line 230.
Accepts(similarity) == similarity >= MIN_SIMILARITY

\* The loop of lines 228-240 over the assigned pairs.
RECURSIVE ExtractMatches(_, _)
ExtractMatches(pairs, M) ==
    IF pairs = <<>> THEN <<>>
    ELSE LET i == Head(pairs).arwu_index
             j == Head(pairs).scorecard_index
             similarity == M[i][j]
         IN  (IF Accepts(similarity)
              THEN <<[arwu_index |-> i,
                      arwu_name |-> arwu_names[i],
                      scorecard_name |-> scorecard_names[j],
                      scorecard_index |-> j,
                      similarity_score |-> similarity]>>
              ELSE <<>>) \o ExtractMatches(Tail(pairs), M)

\* unmatched_arwu of line 245, as indices in list order.
UnmatchedArwu(ms) ==
    LET matched_arwu == {ms[k].arwu_index : k \in DOMAIN ms}
    IN  SelectSeq([i \in 1..Len(arwu_names) |-> i], LAMBDA i : i \notin matched_arwu)

\* Lines 251-266: one row of the returned DataFrame per match.  The tuition
\* columns are copied from scorecard_df.iloc[scorecard_index].
MatchedData(ms) ==
    [k \in DOMAIN ms |->
        [institution |-> ms[k].arwu_name,
         tuition_of_row |-> ms[k].scorecard_index,
         match_similarity |-> ms[k].similarity_score]]

\* Lines 203-217.  np.max raises ValueError on a row without entries.
ApplyFilters ==
    /\ pc = "computed"
    /\ IF Len(arwu_names) > 0 /\ Len(scorecard_names) = 0
       THEN /\ pc' = "error"
            /\ UNCHANGED <<filtered_matrix, valid_pairs>>
       ELSE /\ filtered_matrix' =
                  [i \in DOMAIN similarity_matrix |-> FilterRow(similarity_matrix[i])]
            /\ valid_pairs' =
                  SelectSeq([i \in 1..Len(arwu_names) |-> i],
                            LAMBDA i : PassesFilters(similarity_matrix[i]))
            /\ pc' = "filtered"
    /\ UNCHANGED <<arwu_names, scorecard_names, similarity_matrix, sim_path,
                   assignment, matches, unmatched_log, matched_data>>
    /\ UNCHANGED canonVars
    /\ UNCHANGED <<analyzerVars, collectorVars>>

\* Lines 220-221.
HungarianAssign ==
    /\ pc = "filtered"
    /\ \E f \in linear_sum_assignment(CostMatrix(filtered_matrix),
                                      Len(arwu_names), Len(scorecard_names)) :
           assignment' = PairsOf(f, DOMAIN f)
    /\ pc' = "assigned"
    /\ UNCHANGED <<arwu_names, scorecard_names, similarity_matrix, sim_path,
                   filtered_matrix, valid_pairs, matches, unmatched_log,
                   matched_data>>
    /\ UNCHANGED canonVars
    /\ UNCHANGED <<analyzerVars, collectorVars>>

\* Lines 224-266.
AcceptMatches ==
    /\ pc = "assigned"
    /\ LET ms == ExtractMatches(assignment, similarity_matrix)
           unmatched_arwu == UnmatchedArwu(ms)
       IN  /\ matches' = ms
           /\ unmatched_log' =
                  SubSeq(unmatched_arwu, 1, Min2(LogLimit, Len(unmatched_arwu)))
           /\ matched_data' = MatchedData(ms)
    /\ pc' = "done"
    /\ UNCHANGED <<arwu_names, scorecard_names, similarity_matrix, sim_path,
                   filtered_matrix, valid_pairs, assignment>>
    /\ UNCHANGED canonVars
    /\ UNCHANGED <<analyzerVars, collectorVars>>

(***************************************************************************)
(* match_universities over every similarity matrix of bounded size: the    *)
(* names are opaque labels and the matrix is any matrix with entries in    *)
(* Scores.                                                                 *)
(***************************************************************************)
Scores == {0, 85, 90, 92, 100}

Label(c, i) == <<c, CodeOrder[i + 1]>>

InitMatch ==
    /\ \E n \in 1..MaxRows, m \in 0..MaxCols :
          /\ n * m <= MaxCells
          /\ arwu_names = [i \in 1..n |-> Label("a", i)]
          /\ scorecard_names = [j \in 1..m |-> Label("s", j)]
          /\ similarity_matrix \in [1..n -> [1..m -> Scores]]
    /\ sim_path = "given"
    /\ filtered_matrix = <<>>
    /\ valid_pairs = <<>>
    /\ assignment = <<>>
    /\ matches = <<>>
    /\ unmatched_log = <<>>
    /\ matched_data = <<>>
    /\ pc = "computed"
    /\ CanonIdle
    /\ AnalyzerIdle
    /\ CollectorIdle

NextMatch == ApplyFilters \/ HungarianAssign \/ AcceptMatches

SpecMatch == InitMatch /\ [][NextMatch]_vars

(***************************************************************************)
(* compute_similarity_matrix: TF-IDF cosine similarity, with the           *)
(* token-sort ratio as fallback.                                           *)
(***************************************************************************)
\* TfidfVectorizer's analyzer: lowercase, then the tokens of two or more
\* word characters (token_pattern r"(?u)\b\w\w+\b").
TfidfTokens(doc) == SelectSeq(Split(StrLower(doc)), LAMBDA t : Len(t) >= 2)

\* ngram_range=(1, 2): the unigrams, then the bigrams of adjacent tokens.
Ngrams(doc) ==
    LET ts == TfidfTokens(doc)
    IN  IF Len(ts) < 2 THEN ts
        ELSE ts \o [k \in 1..(Len(ts) - 1) |-> Join(<<ts[k], ts[k + 1]>>)]

\* The n-grams of every document.
RECURSIVE Grams(_)
Grams(texts) ==
    IF texts = <<>> THEN <<>> ELSE <<Ngrams(Head(texts))>> \o Grams(Tail(texts))

\* Term frequency: the occurrences of term among the n-grams g of a document.
Tf(term, g) == Cardinality({k \in DOMAIN g : g[k] = term})

\* Document frequency: the documents term occurs in.
Df(term, grams) == Cardinality({d \in DOMAIN grams : term \in Range(grams[d])})

AllTerms(grams) == UNION {Range(grams[d]) : d \in DOMAIN grams}

\* min_df=1
MinDf == 1

\* max_df=0.8, in tenths.
MaxDfTenths == 8

\* The vocabulary left by min_df and max_df: df >= 1 and df <= 0.8 * n_docs.
Vocabulary(grams) ==
    {t \in AllTerms(grams) :
        /\ Df(t, grams) >= MinDf
        /\ 10 * Df(t, grams) <= MaxDfTenths * Len(grams)}

\* A vectorizer that fits whatever it is given.
TfidfNeverFails(grams) == FALSE

\* fit_transform raises ValueError: max_df below min_df, an empty
\* vocabulary, or no term left after pruning.
TfidfFails(grams) ==
    \/ MaxDfTenths * Len(grams) < 10 * MinDf
    \/ AllTerms(grams) = {}
    \/ Vocabulary(grams) = {}

\* Weights are held in units of 1/IdfScale: LnScaled[k] is ln(k) in that
\* unit, rounded to the nearest whole.  Quarters keep every product of the
\* cosine within 32-bit integers.
IdfScale == 4

LnScaled == <<0, 3, 4, 6, 6, 7, 8, 8, 9, 9, 10, 10>>

\* smooth_idf: idf(t) = ln((1 + n) / (1 + df(t))) + 1
Idf(term, grams) ==
    IdfScale + LnScaled[1 + Len(grams)] - LnScaled[1 + Df(term, grams)]

\* One row of the TF-IDF matrix: the weight tf * idf of every term of V in
\* the document whose n-grams are g.
RECURSIVE TfidfRow(_, _, _)
TfidfRow(V, g, grams) ==
    IF V = {} THEN <<>>
    ELSE LET t == CHOOSE x \in V : TRUE
         IN  (t :> Tf(t, g) * Idf(t, grams)) @@ TfidfRow(V \ {t}, g, grams)

RECURSIVE TfidfRows(_, _, _)
TfidfRows(d, V, grams) ==
    IF d > Len(grams) THEN <<>>
    ELSE <<TfidfRow(V, grams[d], grams)>> \o TfidfRows(d + 1, V, grams)

\* vectorizer.fit_transform(all_texts): one row per document.
TfidfMatrix(grams) == TfidfRows(1, Vocabulary(grams), grams)

RECURSIVE DotOver(_, _, _)
DotOver(V, u, v) ==
    IF V = {} THEN 0
    ELSE LET t == CHOOSE x \in V : TRUE
         IN  u[t] * v[t] + DotOver(V \ {t}, u, v)

Dot(u, v) == DotOver(DOMAIN u, u, v)

\* The dot product of the weight vectors, left unnormalised.
CosineWithoutNorms(u, v) == (100 * Dot(u, v)) \div (IdfScale * IdfScale)

\* cosine_similarity(u, v) * 100 as a whole percent; a vector without
\* terms has similarity 0 with everything.
Cosine100(u, v) ==
    LET dot == Dot(u, v)
        nu  == Dot(u, u)
        nv  == Dot(v, v)
    IN  IF nu = 0 \/ nv = 0 THEN 0
        ELSE CHOOSE k \in 0..100 :
                 /\ k * k * nu * nv <= 10000 * dot * dot
                 /\ k < 100 => (k + 1) * (k + 1) * nu * nv > 10000 * dot * dot

\* One row of the dynamic program for the longest common subsequence:
\* position p holds the value for the first p - 1 characters of b.
RECURSIVE LcsRow(_, _, _, _)
LcsRow(prev, c, b, cur) ==
    IF Len(cur) = Len(b) + 1 THEN cur
    ELSE LET j == Len(cur)
         IN  LcsRow(prev, c, b,
                    Append(cur, IF c = b[j] THEN prev[j] + 1
                                ELSE Max2(prev[j + 1], cur[j])))

\* The rows in turn; each row is complete before the next one is begun.
RECURSIVE LcsRows(_, _, _)
LcsRows(a, b, prev) ==
    IF a = <<>> THEN prev[Len(b) + 1]
    ELSE LET row == LcsRow(prev, Head(a), b, <<0>>)
         IN  IF Len(row) = Len(b) + 1 THEN LcsRows(Tail(a), b, row) ELSE 0

Lcs(a, b) == LcsRows(a, b, [j \in 1..(Len(b) + 1) |-> 0])

\* rapidfuzz fuzz.ratio: the normalised indel similarity, as a whole
\* percent; two empty strings are equal.
Ratio(a, b) ==
    IF Len(a) + Len(b) = 0 THEN 100
    ELSE (200 * Lcs(a, b)) \div (Len(a) + Len(b))

\* rapidfuzz fuzz.token_sort_ratio
token_sort_ratio(a, b) == Ratio(Join(Sorted(Split(a))), Join(Sorted(Split(b))))

\* The indices whose canonical name is not empty, in list order.
ValidIndices(canons) ==
    SelectSeq([i \in DOMAIN canons |-> i], LAMBDA i : canons[i] # <<>>)

\* The fallback loop without the test of line 173.
FallbackEntryUnguarded(canon_a, canon_s) == token_sort_ratio(canon_a, canon_s)

\* Lines 171-174: one entry of the fallback loop.
FallbackEntry(canon_a, canon_s) ==
    IF canon_a # <<>> /\ canon_s # <<>>
    THEN token_sort_ratio(canon_a, canon_s)
    ELSE 0

\* Position of index i in the list of valid indices, 0 if it is not there.
PositionIn(valid, i) ==
    IF \E d \in DOMAIN valid : valid[d] = i
    THEN CHOOSE d \in DOMAIN valid : valid[d] = i
    ELSE 0

\* Lines 157-166: the cosine similarities, mapped back to the original
\* indices; the entries of invalid indices keep the 0 of np.zeros.
TfidfSimilarity(A, B, valid_arwu, valid_scorecard, grams) ==
    LET tfidf_matrix    == TfidfMatrix(grams)
        arwu_tfidf      == SubSeq(tfidf_matrix, 1, Len(valid_arwu))
        scorecard_tfidf == SubSeq(tfidf_matrix, Len(valid_arwu) + 1, Len(grams))
        cosine_sim == [idx_a \in DOMAIN arwu_tfidf |->
                          [idx_s \in DOMAIN scorecard_tfidf |->
                              Cosine100(arwu_tfidf[idx_a], scorecard_tfidf[idx_s])]]
    IN  [i \in DOMAIN A |-> [j \in DOMAIN B |->
            LET idx_a == PositionIn(valid_arwu, i)
                idx_s == PositionIn(valid_scorecard, j)
            IN  IF idx_a > 0 /\ idx_s > 0 THEN cosine_sim[idx_a][idx_s] ELSE 0]]

\* The value returned, with the path that produced it: "zeros" (line 139),
\* "tfidf" (lines 157-166) or "fallback" (lines 168-174).
compute_similarity_matrix(A, B) ==
    LET arwu_canon      == [i \in DOMAIN A |-> canonicalize_name(A[i])]
        scorecard_canon == [j \in DOMAIN B |-> canonicalize_name(B[j])]
        valid_arwu      == ValidIndices(arwu_canon)
        valid_scorecard == ValidIndices(scorecard_canon)
        all_texts == [d \in DOMAIN valid_arwu |-> arwu_canon[valid_arwu[d]]]
                       \o [d \in DOMAIN valid_scorecard |->
                              scorecard_canon[valid_scorecard[d]]]
        grams == Grams(all_texts)
    IN  IF valid_arwu = <<>> \/ valid_scorecard = <<>>
        THEN [matrix |-> [i \in DOMAIN A |-> Zeros(Len(B))], path |-> "zeros"]
        ELSE IF TfidfFails(grams)
        THEN [matrix |-> [i \in DOMAIN A |-> [j \in DOMAIN B |->
                            FallbackEntry(arwu_canon[i], scorecard_canon[j])]],
              path |-> "fallback"]
        ELSE [matrix |-> TfidfSimilarity(A, B, valid_arwu, valid_scorecard, grams),
              path |-> "tfidf"]

\* Line 196.
ComputeSimilarity ==
    /\ pc = "start"
    /\ LET r == compute_similarity_matrix(arwu_names, scorecard_names)
       IN  /\ similarity_matrix' = r.matrix
           /\ sim_path' = r.path
    /\ pc' = "computed"
    /\ UNCHANGED <<arwu_names, scorecard_names, filtered_matrix, valid_pairs,
                   assignment, matches, unmatched_log, matched_data>>
    /\ UNCHANGED canonVars
    /\ UNCHANGED <<analyzerVars, collectorVars>>

(***************************************************************************)
(* The whole matcher on lists of raw names.  The ARWU names are the keys   *)
(* of a dictionary: at least one, no two alike.  The Scorecard names are   *)
(* any list, the empty one included.                                       *)
(***************************************************************************)
RECURSIVE ListsUpTo(_)
ListsUpTo(n) ==
    IF n = 0 THEN {<<>>}
    ELSE LET shorter == ListsUpTo(n - 1)
         IN  shorter \cup {Append(l, x) : l \in shorter, x \in NamePool}

NoDuplicates(l) == \A a, b \in DOMAIN l : a # b => l[a] # l[b]

Init ==
    /\ arwu_names \in {l \in ListsUpTo(MaxArwu) : l # <<>> /\ NoDuplicates(l)}
    /\ scorecard_names \in ListsUpTo(MaxScorecard)
    /\ similarity_matrix = <<>>
    /\ sim_path = "none"
    /\ filtered_matrix = <<>>
    /\ valid_pairs = <<>>
    /\ assignment = <<>>
    /\ matches = <<>>
    /\ unmatched_log = <<>>
    /\ matched_data = <<>>
    /\ pc = "start"
    /\ CanonIdle
    /\ AnalyzerIdle
    /\ CollectorIdle

Next == ComputeSimilarity \/ ApplyFilters \/ HungarianAssign \/ AcceptMatches

Spec == Init /\ [][Next]_vars

(***************************************************************************)
(* compute_similarity_matrix alone, called on any two lists of names: a    *)
(* list may be empty, hold the same name twice, hold missing values, or    *)
(* names made of one-letter words.                                         *)
(***************************************************************************)
\* The lists of at most n names of P.
RECURSIVE ListsOver(_, _)
ListsOver(P, n) ==
    IF n = 0 THEN {<<>>}
    ELSE LET shorter == ListsOver(P, n - 1)
         IN  shorter \cup {Append(l, x) : l \in shorter, x \in P}

SimilarityPool ==
    { NaN,
      <<"U","n","i","v","e","r","s","i","t","y"," ","o","f"," ","Y","o","r","k">>,
      <<"Y","o","r","k"," ","C","o","l","l","e","g","e">>,
      <<"N","e","w"," ","Y","o","r","k"," ","U","n","i","v","e","r","s","i","t","y">>,
      <<"A"," ","B">>,
      <<"A"," ","C">> }

InitSimilarity ==
    /\ arwu_names \in ListsOver(SimilarityPool, MaxArwu)
    /\ scorecard_names \in ListsOver(SimilarityPool, MaxScorecard)
    /\ similarity_matrix = <<>>
    /\ sim_path = "none"
    /\ filtered_matrix = <<>>
    /\ valid_pairs = <<>>
    /\ assignment = <<>>
    /\ matches = <<>>
    /\ unmatched_log = <<>>
    /\ matched_data = <<>>
    /\ pc = "start"
    /\ CanonIdle
    /\ AnalyzerIdle
    /\ CollectorIdle

NextSimilarity == ComputeSimilarity

SpecSimilarity == InitSimilarity /\ [][NextSimilarity]_vars

(***************************************************************************)
(* The whole matcher on the names of the Harvard / MIT scenario.           *)
(***************************************************************************)
HarvardUniversity ==
    <<"H","a","r","v","a","r","d"," ","U","n","i","v","e","r","s","i","t","y">>

MIT == <<"M","I","T">>

HarvardUniv == <<"H","a","r","v","a","r","d"," ","U","n","i","v",".">>

MassachusettsInstituteOfTechnology ==
    <<"M","a","s","s","a","c","h","u","s","e","t","t","s"," ",
      "I","n","s","t","i","t","u","t","e"," ","o","f"," ",
      "T","e","c","h","n","o","l","o","g","y">>

ScenarioPool ==
    {HarvardUniversity, MIT, HarvardUniv, MassachusettsInstituteOfTechnology}

InitScenario ==
    /\ arwu_names \in
          {l \in ListsOver(ScenarioPool, MaxArwu) : l # <<>> /\ NoDuplicates(l)}
    /\ scorecard_names \in ListsOver(ScenarioPool, MaxScorecard)
    /\ similarity_matrix = <<>>
    /\ sim_path = "none"
    /\ filtered_matrix = <<>>
    /\ valid_pairs = <<>>
    /\ assignment = <<>>
    /\ matches = <<>>
    /\ unmatched_log = <<>>
    /\ matched_data = <<>>
    /\ pc = "start"
    /\ CanonIdle
    /\ AnalyzerIdle
    /\ CollectorIdle

SpecScenario == InitScenario /\ [][Next]_vars

(***************************************************************************)
(* The value / percentile analyzers.  A number is a fraction <<n, d>> in   *)
(* lowest terms with d > 0; the NaN that 0 / 0 gives is <<0, 0>>.          *)
(***************************************************************************)
RECURSIVE Gcd(_, _)
Gcd(a, b) == IF b = 0 THEN a ELSE Gcd(b, a % b)

Frac(n, d) == LET g == Gcd(d, n % d) IN <<n \div g, d \div g>>

NotANumber == <<0, 0>>

IsNumber(a) == a[2] # 0

FromInt(k) == <<k, 1>>

\* n / d as pandas divides: 0 / 0 is NaN.
Div(n, d) == IF d = 0 THEN NotANumber ELSE Frac(n, d)

FAdd(a, b) ==
    IF IsNumber(a) /\ IsNumber(b)
    THEN Frac(a[1] * b[2] + b[1] * a[2], a[2] * b[2])
    ELSE NotANumber

FSub(a, b) ==
    IF IsNumber(a) /\ IsNumber(b)
    THEN Frac(a[1] * b[2] - b[1] * a[2], a[2] * b[2])
    ELSE NotANumber

\* k * a, and a / k, for a whole number k > 0.
FScale(k, a) == IF IsNumber(a) THEN Frac(k * a[1], a[2]) ELSE NotANumber

FOver(a, k) == IF IsNumber(a) THEN Frac(a[1], k * a[2]) ELSE NotANumber

\* a <= b for two numbers.
FLeq(a, b) == a[1] * b[2] <= b[1] * a[2]

\* A cell read_csv left empty (NaN); no rank and no price is negative.
Missing == 0 - 1

\* The rows of P the mask selects: those of country c.
RowsOf(P, c) == {x \in DOMAIN P : P[x].country = c}

\* Series.rank(method='first'): ties are ranked in the order of the rows.
RankFirst(P, S, x) ==
    1 + Cardinality({y \in S : P[y].rank < P[x].rank
                                 \/ (P[y].rank = P[x].rank /\ y < x)})

\* Series.rank(method='min') of the rank column: one more than the number
\* of rows with a smaller value (an empty cell is no value).
RankMin(P, S, x) ==
    1 + Cardinality({y \in S : P[y].rank # Missing /\ P[y].rank < P[x].rank})

\* Twice Series.rank(method='average') of the price column.
RankAverageTwice(P, S, x) ==
    2 * Cardinality({y \in S : P[y].price_usd # Missing
                                 /\ P[y].price_usd < P[x].price_usd})
      + Cardinality({y \in S : P[y].price_usd = P[x].price_usd}) + 1

\* ((len + 1 - rank(method='min')) / len) * 100; rank() of an empty cell is
\* NaN, and len counts every row.
RankPercentile(P, S, x) ==
    IF P[x].rank = Missing THEN NotANumber
    ELSE FScale(100, Div(Cardinality(S) + 1 - RankMin(P, S, x), Cardinality(S)))

\* (rank(method='average') / len) * 100
PricePercentile(P, S, x) ==
    IF P[x].price_usd = Missing THEN NotANumber
    ELSE FScale(100, Div(RankAverageTwice(P, S, x), 2 * Cardinality(S)))

\* w_rank * a + w_price * b, the weights in tenths.
Weighted(w_rank, w_price, a, b) ==
    FOver(FAdd(FScale(w_rank, a), FScale(w_price, b)), 10)

\* (0.6 * rank_percentile) + (0.4 * (100 - price_percentile))
ValueScore(rank_percentile, price_percentile) ==
    Weighted(6, 4, rank_percentile, FSub(FromInt(100), price_percentile))

\* _calculate_percentiles of comprehensive_analysis.py and
\* _calculate_value_scores of real_data_analysis.py: the columns of row x.
RankBasedScores(P, x) ==
    LET all == DOMAIN P
        own == RowsOf(P, P[x].country)
    IN  [rank_percentile |-> RankPercentile(P, all, x),
         price_percentile |-> PricePercentile(P, all, x),
         value_score |-> ValueScore(RankPercentile(P, all, x),
                                    PricePercentile(P, all, x)),
         country_rank_percentile |-> RankPercentile(P, own, x),
         country_price_percentile |-> PricePercentile(P, own, x),
         country_value_score |-> ValueScore(RankPercentile(P, own, x),
                                            PricePercentile(P, own, x))]

\* Series.min() and Series.max() of column col over the rows S (S not empty).
ColMin(P, S, col) == CHOOSE v \in {P[y][col] : y \in S} : \A y \in S : v <= P[y][col]

ColMax(P, S, col) == CHOOSE v \in {P[y][col] : y \in S} : \A y \in S : v >= P[y][col]

\* 100 - ((v - min) / (max - min) * 100) over the rows S.
MinMaxPercentile(P, S, col, x) ==
    FSub(FromInt(100),
         FScale(100, Div(P[x][col] - ColMin(P, S, col),
                         ColMax(P, S, col) - ColMin(P, S, col))))

\* (0.6 * rank_percentile) + (0.4 * price_percentile) of the sweet-spot
\* scripts, whose price_percentile is high for a low price.
SweetSpotValueScore(rank_percentile, price_percentile) ==
    Weighted(6, 4, rank_percentile, price_percentile)

\* calculate_value_scores of find_sweet_spot.py (min_group = 1) and of
\* real_sweet_spot_analysis.py (min_group = 2, the test len(country_data) > 1):
\* a country with fewer rows gets no country-specific value.
MinMaxScores(P, x, min_group) ==
    LET all == DOMAIN P
        own == RowsOf(P, P[x].country)
        listed == Cardinality(own) >= min_group
        crp == IF listed THEN MinMaxPercentile(P, own, "rank", x) ELSE NotANumber
        cpp == IF listed THEN MinMaxPercentile(P, own, "price_usd", x) ELSE NotANumber
    IN  [rank_percentile |-> MinMaxPercentile(P, all, "rank", x),
         price_percentile |-> MinMaxPercentile(P, all, "price_usd", x),
         value_score |-> SweetSpotValueScore(MinMaxPercentile(P, all, "rank", x),
                                             MinMaxPercentile(P, all, "price_usd", x)),
         country_rank_percentile |-> crp,
         country_price_percentile |-> cpp,
         country_value_score |-> SweetSpotValueScore(crp, cpp)]

\* value_analysis of final_analysis_scorecard_rankings.py:
\* price_score = 100 * (price_max - price) / (price_max - price_min),
\* value_score = 0.7 * overall_quality_score + 0.3 * price_score.
QualityValueScores(P, x) ==
    LET all == DOMAIN P
        price_min == ColMin(P, all, "price_usd")
        price_max == ColMax(P, all, "price_usd")
        price_score == FScale(100, Div(price_max - P[x].price_usd,
                                       price_max - price_min))
    IN  [price_score |-> price_score,
         value_score |-> Weighted(7, 3, FromInt(P[x].overall_quality_score),
                                  price_score)]

(***************************************************************************)
(* The data the scripts load.                                              *)
(***************************************************************************)
Countries == {"United States", "United Kingdom"}

Ranks == {1, 2, 10}

Prices == {10, 20}

Qualities == {40, 80}

RankedRecords == [country : Countries, rank : Ranks, price_usd : Prices]

QualityRecords == [overall_quality_score : Qualities, price_usd : Prices]

RECURSIVE Tables(_, _)
Tables(R, n) ==
    IF n = 0 THEN {<<>>}
    ELSE LET shorter == Tables(R, n - 1)
         IN  shorter \cup {Append(t, r) : t \in shorter, r \in R}

\* The scripts that read a table of ranked and priced universities.
RankAnalyzers ==
    {"comprehensive_analysis", "real_data_analysis", "find_sweet_spot",
     "real_sweet_spot_analysis"}

InitAnalyzer ==
    /\ \/ /\ analyzer \in RankAnalyzers
          /\ df \in Tables(RankedRecords, MaxRecords)
       \/ /\ analyzer = "final_analysis_scorecard_rankings"
          /\ df \in Tables(QualityRecords, MaxRecords)
    /\ scores = <<>>
    /\ correlations = <<>>
    /\ combined_data = <<>>
    /\ apc = "loaded"
    /\ CanonIdle
    /\ MatchIdle
    /\ CollectorIdle

\* comprehensive_analysis.py, load_and_process_data.
ComprehensiveAnalysis ==
    /\ apc = "loaded"
    /\ analyzer = "comprehensive_analysis"
    /\ scores' = [x \in DOMAIN df |-> RankBasedScores(df, x)]
    /\ apc' = "scored"
    /\ UNCHANGED <<analyzer, df, correlations, combined_data>>
    /\ UNCHANGED <<canonVars, matchVars, collectorVars>>

\* real_data_analysis.py, load_and_process_data.
RealDataAnalysis ==
    /\ apc = "loaded"
    /\ analyzer = "real_data_analysis"
    /\ scores' = [x \in DOMAIN df |-> RankBasedScores(df, x)]
    /\ apc' = "scored"
    /\ UNCHANGED <<analyzer, df, correlations, combined_data>>
    /\ UNCHANGED <<canonVars, matchVars, collectorVars>>

\* find_sweet_spot.py, calculate_value_scores.
FindSweetSpot ==
    /\ apc = "loaded"
    /\ analyzer = "find_sweet_spot"
    /\ scores' = [x \in DOMAIN df |-> MinMaxScores(df, x, 1)]
    /\ apc' = "scored"
    /\ UNCHANGED <<analyzer, df, correlations, combined_data>>
    /\ UNCHANGED <<canonVars, matchVars, collectorVars>>

\* real_sweet_spot_analysis.py, calculate_value_scores.
RealSweetSpot ==
    /\ apc = "loaded"
    /\ analyzer = "real_sweet_spot_analysis"
    /\ scores' = [x \in DOMAIN df |-> MinMaxScores(df, x, 2)]
    /\ apc' = "scored"
    /\ UNCHANGED <<analyzer, df, correlations, combined_data>>
    /\ UNCHANGED <<canonVars, matchVars, collectorVars>>

\* final_analysis_scorecard_rankings.py, value_analysis.
ValueAnalysis ==
    /\ apc = "loaded"
    /\ analyzer = "final_analysis_scorecard_rankings"
    /\ scores' = [x \in DOMAIN df |-> QualityValueScores(df, x)]
    /\ apc' = "scored"
    /\ UNCHANGED <<analyzer, df, correlations, combined_data>>
    /\ UNCHANGED <<canonVars, matchVars, collectorVars>>

NextAnalyzer ==
    \/ ComprehensiveAnalysis
    \/ RealDataAnalysis
    \/ FindSweetSpot
    \/ RealSweetSpot
    \/ ValueAnalysis

SpecAnalyzer == InitAnalyzer /\ [][NextAnalyzer]_vars

(***************************************************************************)
(* The correlation summaries.  A summary maps each group it reports        *)
(* ("overall" or a country) to the n its coefficients were computed from.  *)
(***************************************************************************)
MaxCorrelated == 5

\* if len(country_data) > 3
MinGroup == 3

\* scipy.stats.pearsonr raises ValueError for fewer than 2 points.
PearsonMinLength == 2

CorrelatedRecords == [country : Countries, rank : {1, 2}, price_usd : {10}]

GroupSize(P, g) ==
    IF g = "overall" THEN Len(P) ELSE Cardinality(RowsOf(P, g))

Summary(P, groups) == [g \in groups |-> GroupSize(P, g)]

InitCorrelation ==
    /\ analyzer \in {"plot_analysis", "analyze_real_data", "comprehensive_analysis"}
    /\ df \in Tables(CorrelatedRecords, MaxCorrelated)
    /\ scores = <<>>
    /\ correlations = <<>>
    /\ combined_data = <<>>
    /\ apc = "loaded"
    /\ CanonIdle
    /\ MatchIdle
    /\ CollectorIdle

\* plot_analysis.py, calculate_correlations: the overall coefficients
\* without a test, a country's when it has more than 3 rows.
CalculateCorrelations ==
    /\ apc = "loaded"
    /\ analyzer = "plot_analysis"
    /\ IF Len(df) < PearsonMinLength
       THEN /\ correlations' = <<>>
            /\ apc' = "error"
       ELSE /\ correlations' =
                   Summary(df, {"overall"} \cup
                       {c \in Countries : GroupSize(df, c) > MinGroup})
            /\ apc' = "correlated"
    /\ UNCHANGED <<analyzer, df, scores, combined_data>>
    /\ UNCHANGED <<canonVars, matchVars, collectorVars>>

\* analyze_real_data.py, analyze_correlations: {} for no data, the overall
\* coefficients and a country's when there are more than 3 rows.
AnalyzeCorrelations ==
    /\ apc = "loaded"
    /\ analyzer = "analyze_real_data"
    /\ correlations' =
           Summary(df, {g \in {"overall"} \cup {df[x].country : x \in DOMAIN df} :
                           GroupSize(df, g) > MinGroup})
    /\ apc' = "correlated"
    /\ UNCHANGED <<analyzer, df, scores, combined_data>>
    /\ UNCHANGED <<canonVars, matchVars, collectorVars>>

\* The groups _correlation_analysis prints before pearsonr raises, in the
\* order overall, US, UK.
RECURSIVE PrintedGroups(_, _)
PrintedGroups(P, order) ==
    IF order = <<>> \/ GroupSize(P, Head(order)) < PearsonMinLength THEN {}
    ELSE {Head(order)} \cup PrintedGroups(P, Tail(order))

\* comprehensive_analysis.py, _correlation_analysis: overall, US and UK
\* coefficients, none of them behind a test.
CorrelationAnalysis ==
    /\ apc = "loaded"
    /\ analyzer = "comprehensive_analysis"
    /\ LET order == <<"overall", "United States", "United Kingdom">>
           printed == PrintedGroups(df, order)
       IN  /\ correlations' = Summary(df, printed)
           /\ apc' = IF Cardinality(printed) = Len(order)
                     THEN "correlated" ELSE "error"
    /\ UNCHANGED <<analyzer, df, scores, combined_data>>
    /\ UNCHANGED <<canonVars, matchVars, collectorVars>>

NextCorrelation ==
    \/ CalculateCorrelations
    \/ AnalyzeCorrelations
    \/ CorrelationAnalysis

SpecCorrelation == InitCorrelation /\ [][NextCorrelation]_vars

(***************************************************************************)
(* Loading a file whose cells may be empty.                                *)
(***************************************************************************)
CsvRanks == {1, 2}

CsvPrices == {10, 20}

CsvRecords ==
    [country : Countries, rank : CsvRanks \cup {Missing},
     price_usd : CsvPrices \cup {Missing}]

\* The records collect_all_real_data builds: a US record has a tuition when
\* the Scorecard matched it, a UK record a fee when the fee table did.
CollectedRecords ==
    [country : {"United States"}, tuition_in_state_usd : {Missing, 10},
     uk_intl_fee_gbp : {Missing}]
      \cup [country : {"United Kingdom"}, tuition_in_state_usd : {Missing},
            uk_intl_fee_gbp : {Missing, 20}]

\* df.dropna(subset=['price_usd', 'arwu_rank'])
DropNa(P) == SelectSeq(P, LAMBDA r : r.rank # Missing /\ r.price_usd # Missing)

\* gbp_to_usd = 1.27, in hundredths.
GbpToUsdHundredths == 127

\* collect_all_real_data: tuition_in_state_usd if it is there, else
\* row.get('uk_intl_fee_gbp', 0) * 1.27; the column is in the frame when
\* some record has the key, and the default 0 is used when none has.
PriceUsd(P, x) ==
    IF P[x].tuition_in_state_usd # Missing
    THEN FromInt(P[x].tuition_in_state_usd)
    ELSE IF \E y \in DOMAIN P : P[y].uk_intl_fee_gbp # Missing
         THEN IF P[x].uk_intl_fee_gbp = Missing THEN NotANumber
              ELSE Frac(GbpToUsdHundredths * P[x].uk_intl_fee_gbp, 100)
         ELSE FromInt(0)

InitLoad ==
    /\ \/ /\ analyzer \in {"comprehensive_analysis", "real_data_analysis"}
          /\ df \in Tables(CsvRecords, MaxRecords)
       \/ /\ analyzer = "collect_real_data"
          /\ df \in Tables(CollectedRecords, MaxRecords)
    /\ scores = <<>>
    /\ correlations = <<>>
    /\ combined_data = <<>>
    /\ apc = "read"
    /\ CanonIdle
    /\ MatchIdle
    /\ CollectorIdle

\* comprehensive_analysis.py, load_and_process_data from read_csv on.
LoadComprehensive ==
    /\ apc = "read"
    /\ analyzer = "comprehensive_analysis"
    /\ df' = DropNa(df)
    /\ scores' = [x \in DOMAIN DropNa(df) |-> RankBasedScores(DropNa(df), x)]
    /\ apc' = "scored"
    /\ UNCHANGED <<analyzer, correlations, combined_data>>
    /\ UNCHANGED <<canonVars, matchVars, collectorVars>>

\* real_data_analysis.py, load_and_process_data from read_csv on.
LoadRealData ==
    /\ apc = "read"
    /\ analyzer = "real_data_analysis"
    /\ scores' = [x \in DOMAIN df |-> RankBasedScores(df, x)]
    /\ apc' = "scored"
    /\ UNCHANGED <<analyzer, df, correlations, combined_data>>
    /\ UNCHANGED <<canonVars, matchVars, collectorVars>>

\* collect_real_data.py, collect_all_real_data: the price column.
CollectAllRealData ==
    /\ apc = "read"
    /\ analyzer = "collect_real_data"
    /\ scores' = [x \in DOMAIN df |-> [price_usd |-> PriceUsd(df, x)]]
    /\ apc' = "scored"
    /\ UNCHANGED <<analyzer, df, correlations, combined_data>>
    /\ UNCHANGED <<canonVars, matchVars, collectorVars>>

NextLoad ==
    \/ LoadComprehensive
    \/ LoadRealData
    \/ CollectAllRealData

SpecLoad == InitLoad /\ [][NextLoad]_vars

(***************************************************************************)
(* plot_analysis.py, prepare_data: df holds the two files as load_data     *)
(* read them.                                                              *)
(***************************************************************************)
MaxPrepared == 2

UsRecords == [tuition : {Missing, 10}, ranking : {Missing, 1}]

UkRecords == [intl_tuition : {Missing, 20}, composite_rank : {Missing, 2}]

\* us_prep: country 'US', price_usd = tuition, rank = ranking; the name of
\* a row is its place in the file.
UsSubset(us_data) ==
    [k \in DOMAIN us_data |->
        [name |-> k, country |-> "US",
         price_usd |-> IF us_data[k].tuition = Missing THEN NotANumber
                       ELSE FromInt(us_data[k].tuition),
         rank |-> us_data[k].ranking]]

\* uk_prep: country 'UK', price_usd = intl_tuition * 1.27,
\* rank = composite_rank.
UkSubset(uk_data) ==
    [k \in DOMAIN uk_data |->
        [name |-> k, country |-> "UK",
         price_usd |-> IF uk_data[k].intl_tuition = Missing THEN NotANumber
                       ELSE Frac(GbpToUsdHundredths * uk_data[k].intl_tuition, 100),
         rank |-> uk_data[k].composite_rank]]

\* A dropna that drops nothing.
DropsNothing(P) == P

\* combined.dropna(subset=['price_usd', 'rank'])
DropNaCombined(P) ==
    SelectSeq(P, LAMBDA r : IsNumber(r.price_usd) /\ r.rank # Missing)

InitPrepare ==
    /\ analyzer = "plot_analysis"
    /\ df \in [us_data : Tables(UsRecords, MaxPrepared),
               uk_data : Tables(UkRecords, MaxPrepared)]
    /\ scores = <<>>
    /\ correlations = <<>>
    /\ combined_data = <<>>
    /\ apc = "loaded"
    /\ CanonIdle
    /\ MatchIdle
    /\ CollectorIdle

\* plot_analysis.py, prepare_data.
PrepareData ==
    /\ apc = "loaded"
    /\ analyzer = "plot_analysis"
    /\ combined_data' =
           DropNaCombined(UsSubset(df.us_data) \o UkSubset(df.uk_data))
    /\ apc' = "prepared"
    /\ UNCHANGED <<analyzer, df, scores, correlations>>
    /\ UNCHANGED <<canonVars, matchVars, collectorVars>>

NextPrepare == PrepareData

SpecPrepare == InitPrepare /\ [][NextPrepare]_vars

(***************************************************************************)
(* The collectors.  http_log holds what a collector did on the network:    *)
(* a request with the status it met (0: no response came), a sleep with    *)
(* its length in tenths of a second, the backoff before the k-th retry of  *)
(* the retry session.  It keeps the last LogWindow events.                 *)
(***************************************************************************)
MaxUniversities == 2

LogWindow == 16

Get(status) == [op |-> "get", arg |-> status]

Sleep(tenths) == [op |-> "sleep", arg |-> tenths]

Backoff(k) == [op |-> "backoff", arg |-> k]

\* status_forcelist=[500, 502, 503, 504, 429]
status_forcelist == {500, 502, 503, 504, 429}

\* The statuses a server answers with besides 200.
ErrorStatuses == {404, 429, 503}

Logged(log, events) ==
    LET all == log \o events
    IN  IF Len(all) <= LogWindow THEN all
        ELSE SubSeq(all, Len(all) - LogWindow + 1, Len(all))

\* us_universities of collect_real_us_data: the US entries of real_arwu_2023.
NumUsUniversities == 2

\* search_variations: the name and three rewritings of it.
NumVariations == 4

\* A row of a collected table: where it came from and which request
\* (page, university) brought it.
Row(src, n) == [src |-> src, n |-> n]

CollectorsOff == CanonIdle /\ MatchIdle /\ AnalyzerIdle

InitFetchUsTuition ==
    /\ collector = "fetch_us_tuition_scorecard"
    /\ limit \in 0..MaxUniversities
    /\ http_log = <<>>
    /\ page = 0
    /\ collected = <<>>
    /\ returned = <<>>
    /\ kpc = "loop"
    /\ CollectorsOff

\* collect_real_data.py, fetch_us_tuition_scorecard with an API key: one
\* pass of the loop over universities.  raise_for_status and a failed
\* request end in the except branch, which goes on to the next name.
FetchUsTuition ==
    /\ collector = "fetch_us_tuition_scorecard"
    /\ kpc = "loop"
    /\ page < limit
    /\ \/ /\ http_log' = Logged(http_log, <<Get(200), Sleep(1)>>)
          /\ collected' = Append(collected, Row("scorecard", page))
       \/ /\ http_log' = Logged(http_log, <<Get(200), Sleep(1)>>)
          /\ collected' = collected
       \/ /\ \E status \in ErrorStatuses \cup {0} :
                http_log' = Logged(http_log, <<Get(status)>>)
          /\ collected' = collected
    /\ page' = page + 1
    /\ UNCHANGED <<collector, returned, limit, kpc>>
    /\ UNCHANGED <<canonVars, matchVars, analyzerVars>>

\* return df, after the loop.
FetchUsTuitionReturn ==
    /\ collector = "fetch_us_tuition_scorecard"
    /\ kpc = "loop"
    /\ page = limit
    /\ returned' = collected
    /\ kpc' = "done"
    /\ UNCHANGED <<collector, http_log, page, collected, limit>>
    /\ UNCHANGED <<canonVars, matchVars, analyzerVars>>

InitCollectRealUs ==
    /\ collector = "collect_real_us_data"
    /\ limit = NumUsUniversities * NumVariations
    /\ http_log = <<>>
    /\ page = 0
    /\ collected = <<>>
    /\ returned = <<>>
    /\ kpc = "loop"
    /\ CollectorsOff

\* rebuild_with_real_data.py, collect_real_us_data: one request of the loop
\* over the search variations of university page \div NumVariations.  A
\* usable match ends the variations without the sleep; a status other than
\* 200 is passed over; an exception skips the sleep.
CollectRealUs ==
    /\ collector = "collect_real_us_data"
    /\ kpc = "loop"
    /\ page < limit
    /\ \/ /\ http_log' = Logged(http_log, <<Get(200)>>)
          /\ collected' = Append(collected, Row("scorecard", page \div NumVariations))
          /\ page' = (page \div NumVariations + 1) * NumVariations
       \/ /\ \E status \in {200, 503} :
                http_log' = Logged(http_log, <<Get(status), Sleep(5)>>)
          /\ collected' = collected
          /\ page' = page + 1
       \/ /\ http_log' = Logged(http_log, <<Get(0)>>)
          /\ collected' = collected
          /\ page' = page + 1
    /\ UNCHANGED <<collector, returned, limit, kpc>>
    /\ UNCHANGED <<canonVars, matchVars, analyzerVars>>

\* return real_us_data, after the loop.
CollectRealUsReturn ==
    /\ collector = "collect_real_us_data"
    /\ kpc = "loop"
    /\ page = limit
    /\ returned' = collected
    /\ kpc' = "done"
    /\ UNCHANGED <<collector, http_log, page, collected, limit>>
    /\ UNCHANGED <<canonVars, matchVars, analyzerVars>>

\* Retry(total=5, ...)
RetryTotal == 5

\* The pages the model tells apart in the loop that has no page limit.
MaxDiscoverPages == 2

\* session.get of the retry session when the server answers the first f
\* attempts with the status transient: a backoff and a new attempt after
\* each, until the total is used up (then the session raises).
RECURSIVE Attempts(_, _, _)
Attempts(f, transient, k) ==
    IF k > f THEN <<>>
    ELSE <<Get(transient)>>
           \o (IF k <= RetryTotal THEN <<Backoff(k)>> ELSE <<>>)
           \o Attempts(f, transient, k + 1)

SessionGet(f, transient, status) ==
    Attempts(f, transient, 1)
      \o (IF f <= RetryTotal THEN <<Get(status)>> ELSE <<>>)

\* _create_uk_fallback_data(): the hard-coded table.
UkFallback == <<Row("uk_fallback", 0)>>

InitDiscoverUni ==
    /\ collector = "collect_uk_discover_uni_data"
    /\ limit = 0
    /\ http_log = <<>>
    /\ page = 1
    /\ collected = <<>>
    /\ returned = <<>>
    /\ kpc = "loop"
    /\ CollectorsOff

\* What one pass of the loop does after a page with data: total_pages is
\* ceil(total / 5000), or 1 without 'meta'.
DiscoverUniPageOfData(events, total_pages) ==
    /\ collected' = IF Len(collected) < MaxDiscoverPages
                    THEN Append(collected, Row("discover_uni", page))
                    ELSE collected
    /\ returned' = returned
    /\ IF page >= total_pages
       THEN /\ http_log' = Logged(http_log, events)
            /\ page' = page
            /\ kpc' = "aggregate"
       ELSE /\ http_log' = Logged(http_log, events \o <<Sleep(1)>>)
            /\ page' = IF page < MaxDiscoverPages THEN page + 1 ELSE page
            /\ kpc' = "loop"

\* collect_comprehensive_data.py, collect_uk_discover_uni_data: one pass of
\* the while True loop.  An exception (the session gave up, raise_for_status
\* on a 404, a 200 whose 'meta' has no 'total') leaves through the except
\* branch; a page without data ends the loop.
DiscoverUniPage ==
    /\ collector = "collect_uk_discover_uni_data"
    /\ kpc = "loop"
    /\ \E f \in 0..(RetryTotal + 1), transient \in {429, 503} :
          \/ /\ f > RetryTotal
             /\ http_log' = Logged(http_log, SessionGet(f, transient, 0))
             /\ returned' = UkFallback
             /\ kpc' = "done"
             /\ UNCHANGED <<page, collected>>
          \/ /\ f <= RetryTotal
             /\ \E status \in {404, 200} :
                   http_log' = Logged(http_log, SessionGet(f, transient, status))
             /\ returned' = UkFallback
             /\ kpc' = "done"
             /\ UNCHANGED <<page, collected>>
          \/ /\ f <= RetryTotal
             /\ http_log' = Logged(http_log, SessionGet(f, transient, 200))
             /\ kpc' = "aggregate"
             /\ UNCHANGED <<page, collected, returned>>
          \/ /\ f <= RetryTotal
             /\ \E total_pages \in 0..(MaxDiscoverPages + 1) :
                   DiscoverUniPageOfData(SessionGet(f, transient, 200), total_pages)
    /\ UNCHANGED <<collector, limit>>
    /\ UNCHANGED <<canonVars, matchVars, analyzerVars>>

\* After the loop: the fallback table for no courses or courses without the
\* columns wanted (or an exception while aggregating), else their table,
\* which is empty when no provider has a fee above 0.
DiscoverUniReturn ==
    /\ collector = "collect_uk_discover_uni_data"
    /\ kpc = "aggregate"
    /\ \E usable \in BOOLEAN, priced \in BOOLEAN :
          returned' = IF collected = <<>> \/ ~usable THEN UkFallback
                      ELSE IF priced THEN collected
                      ELSE <<>>
    /\ kpc' = "done"
    /\ UNCHANGED <<collector, http_log, page, collected, limit>>
    /\ UNCHANGED <<canonVars, matchVars, analyzerVars>>

\* max_pages as the callers pass it.
MaxPages == 3

InitPaginated ==
    /\ collector \in {"get_bulk_university_data",
                      "collect_universities_with_quality_metrics"}
    /\ limit \in 0..MaxPages
    /\ http_log = <<>>
    /\ page = 0
    /\ collected = <<>>
    /\ returned = <<>>
    /\ kpc = "loop"
    /\ CollectorsOff

\* The request for page p: the status it met, the number of results on the
\* page and how many of them are valid universities.
GetPage(status, p, results, valid) ==
    [op |-> "get", arg |-> status, page |-> p, results |-> results,
     valid |-> valid]

\* One pass of `while page < max_pages`: a page with results adds its valid
\* rows (there may be none), sleeps and counts on; a page without results
\* and an exception break.
PaginatedPage(c) ==
    /\ collector = c
    /\ kpc = "loop"
    /\ page < limit
    /\ \/ /\ \E valid \in 0..1 :
                /\ collected' = IF valid = 1
                                THEN Append(collected, Row("scorecard", page))
                                ELSE collected
                /\ http_log' = Logged(http_log,
                                      <<GetPage(200, page, 1, valid), Sleep(5)>>)
          /\ page' = page + 1
          /\ kpc' = "loop"
       \/ /\ \E status \in ErrorStatuses \cup {0, 200} :
                http_log' = Logged(http_log, <<GetPage(status, page, 0, 0)>>)
          /\ kpc' = "stopped"
          /\ UNCHANGED <<page, collected>>
    /\ UNCHANGED <<collector, returned, limit>>
    /\ UNCHANGED <<canonVars, matchVars, analyzerVars>>

\* A return that drops what was gathered when the loop broke off.
DiscardedOnStop(all_universities, position) ==
    IF position = "stopped" THEN <<>> ELSE all_universities

\* pd.DataFrame(all_universities), or the empty DataFrame for none.
ReturnedFrame(all_universities, position) == all_universities

\* After the loop: the DataFrame of all_universities, or an empty one.
PaginatedReturn(c) ==
    /\ collector = c
    /\ kpc = "stopped" \/ (kpc = "loop" /\ page >= limit)
    /\ returned' = ReturnedFrame(collected, kpc)
    /\ kpc' = "done"
    /\ UNCHANGED <<collector, http_log, page, collected, limit>>
    /\ UNCHANGED <<canonVars, matchVars, analyzerVars>>

\* get_bulk_scorecard_data.py, get_bulk_university_data.
GetBulkUniversityData ==
    \/ PaginatedPage("get_bulk_university_data")
    \/ PaginatedReturn("get_bulk_university_data")

\* implement_scorecard_ranking_system.py,
\* collect_universities_with_quality_metrics.
CollectWithQualityMetrics ==
    \/ PaginatedPage("collect_universities_with_quality_metrics")
    \/ PaginatedReturn("collect_universities_with_quality_metrics")

\* The rows a source of fetch_arwu_rankings may hand back.
MaxArwuRows == 2

ArwuCountries == {"United States", "United Kingdom", "China"}

ArwuRow(src, n, country) == [src |-> src, n |-> n, country |-> country]

RECURSIVE ArwuTables(_, _)
ArwuTables(src, n) ==
    IF n = 0 THEN {<<>>}
    ELSE LET shorter == ArwuTables(src, n - 1)
         IN  shorter \cup {Append(t, ArwuRow(src, Len(t) + 1, c)) :
                              t \in {u \in shorter : Len(u) = n - 1},
                              c \in ArwuCountries}

\* _fetch_arwu_webpage: every row gets the country 'Unknown'.
WebpageTable(n) == [k \in 1..n |-> ArwuRow("webpage", k, "Unknown")]

\* _create_arwu_mock_data: the hard-coded table of US and UK universities.
MockTable ==
    <<ArwuRow("mock", 1, "United States"), ArwuRow("mock", 2, "United Kingdom")>>

approaches == <<"_fetch_arwu_json_api", "_fetch_arwu_webpage", "_create_arwu_mock_data">>

\* A filter that keeps every row.
EveryRow(t) == t

\* df[df['country'].isin(['United States', 'United Kingdom'])]
UsUkRows(t) ==
    SelectSeq(t, LAMBDA r : r.country \in {"United States", "United Kingdom"})

\* What an approach did: it raised, or handed back a table.
Tried(approach, outcome, table) ==
    [op |-> approach, arg |-> outcome, table |-> table]

InitFetchArwu ==
    /\ collector = "fetch_arwu_rankings"
    /\ limit = Len(approaches)
    /\ http_log = <<>>
    /\ page = 0
    /\ collected = <<>>
    /\ returned = <<>>
    /\ kpc = "loop"
    /\ CollectorsOff

\* collect_real_data.py, fetch_arwu_rankings: one pass of the loop over the
\* approaches.  The approach raises (also when its table has no 'country'
\* column: the filter raises inside the try) or hands back a table; the
\* US/UK rows of a table are returned when there are some.  The hard-coded
\* table always has some, so the return after the loop is never reached.
FetchArwuRankings ==
    /\ collector = "fetch_arwu_rankings"
    /\ kpc = "loop"
    /\ page < limit
    /\ \E raised \in BOOLEAN,
          df_ \in CASE page = 0 -> ArwuTables("json_api", MaxArwuRows)
                   [] page = 1 -> {WebpageTable(n) : n \in 0..MaxArwuRows}
                   [] page = 2 -> {MockTable} :
          /\ raised => page < 2
          /\ IF raised
             THEN /\ http_log' = Logged(http_log,
                                         <<Tried(approaches[page + 1], "raised", <<>>)>>)
                  /\ collected' = collected
                  /\ page' = page + 1
                  /\ UNCHANGED <<returned, kpc>>
             ELSE /\ http_log' = Logged(http_log,
                                         <<Tried(approaches[page + 1], "table", df_)>>)
                  /\ collected' = df_
                  /\ IF UsUkRows(df_) # <<>>
                     THEN /\ returned' = UsUkRows(df_)
                          /\ kpc' = "done"
                          /\ page' = page
                     ELSE /\ page' = page + 1
                          /\ UNCHANGED <<returned, kpc>>
    /\ UNCHANGED <<collector, limit>>
    /\ UNCHANGED <<canonVars, matchVars, analyzerVars>>

InitCollect ==
    \/ InitFetchUsTuition
    \/ InitCollectRealUs
    \/ InitDiscoverUni
    \/ InitPaginated
    \/ InitFetchArwu

NextCollect ==
    \/ FetchUsTuition
    \/ FetchUsTuitionReturn
    \/ CollectRealUs
    \/ CollectRealUsReturn
    \/ DiscoverUniPage
    \/ DiscoverUniReturn
    \/ GetBulkUniversityData
    \/ CollectWithQualityMetrics
    \/ FetchArwuRankings

SpecCollect == InitCollect /\ [][NextCollect]_vars

\* collect_uk_discover_uni_data alone; a loop that can go on does.
NextDiscoverUni ==
    \/ DiscoverUniPage
    \/ DiscoverUniReturn

SpecDiscoverUni ==
    InitDiscoverUni /\ [][NextDiscoverUni]_vars /\ WF_vars(NextDiscoverUni)

\* The two paginated collectors alone; a loop that can go on does.
NextPaginated ==
    \/ GetBulkUniversityData
    \/ CollectWithQualityMetrics

SpecPaginated ==
    InitPaginated /\ [][NextPaginated]_vars /\ WF_vars(NextPaginated)

(***************************************************************************)
(* Properties of match_universities.                                       *)
(***************************************************************************)
Rows == 1..Len(arwu_names)

Cols == 1..Len(scorecard_names)

\* The accepted pair (i, j) is among the matches.
Accepted(i, j) ==
    \E k \in DOMAIN matches :
        matches[k].arwu_index = i /\ matches[k].scorecard_index = j

Eligible(i) == PassesFilters(similarity_matrix[i])

BestCol(i) ==
    CHOOSE j \in Cols : similarity_matrix[i][j] = RowMax(similarity_matrix[i])

\* C1: the accepted matches are one-to-one: no ARWU row index and no
\* Scorecard column index appears in more than one accepted pair.
C1_OneToOne ==
    \A a, b \in DOMAIN matches :
        a # b => /\ matches[a].arwu_index # matches[b].arwu_index
                 /\ matches[a].scorecard_index # matches[b].scorecard_index

C1_TwoAccepted == pc = "done" /\ Len(matches) >= 2

\* C2: every accepted pair comes from a row whose best score exceeds its
\* second-best score by at least MIN_GAP; a row failing the gap rule is
\* part of no accepted pair.
C2_GapRuleEnforced ==
    \A k \in DOMAIN matches :
        apply_gap_rule(similarity_matrix[matches[k].arwu_index], MIN_GAP)

\* C3: every accepted pair scores at least MIN_SIMILARITY, the reported
\* match_similarity is exactly similarity_matrix[i][j], and a row whose
\* best score is below MIN_SIMILARITY is part of no accepted pair.
C3_ThresholdEnforced ==
    /\ Len(matched_data) = Len(matches)
    /\ \A k \in DOMAIN matches :
          LET i == matches[k].arwu_index
              j == matches[k].scorecard_index
          IN  /\ similarity_matrix[i][j] >= MIN_SIMILARITY
              /\ matches[k].similarity_score = similarity_matrix[i][j]
              /\ matched_data[k].match_similarity = similarity_matrix[i][j]
              /\ RowMax(similarity_matrix[i]) >= MIN_SIMILARITY

C3_LowRowBesideMatch ==
    /\ pc = "done"
    /\ Len(matches) >= 1
    /\ \E i \in Rows :
          /\ RowMax(similarity_matrix[i]) = 85
          /\ apply_gap_rule(similarity_matrix[i], MIN_GAP)
          /\ \E p \in Range(assignment) : p.arwu_index = i

\* C4 as stated: an eligible row whose best column is not the best column
\* of any other eligible row is accepted with that column.
C4_BestColumnAlwaysAccepted ==
    pc = "done" =>
        \A i \in Rows :
            (/\ Eligible(i)
             /\ \A r \in Rows \ {i} : Eligible(r) => BestCol(r) # BestCol(i))
            => Accepted(i, BestCol(i))

\* C4 as amended: the best column of an eligible row is never given to an
\* ineligible (zeroed) row, and the eligible row is accepted with it
\* whenever no other eligible row has a nonzero score in that column.
C4_SlotNotTakenByIneligible ==
    pc = "done" =>
        \A i \in Rows :
            Eligible(i) =>
                /\ \A p \in Range(assignment) :
                      p.scorecard_index = BestCol(i) => Eligible(p.arwu_index)
                /\ (\A r \in Rows \ {i} :
                       Eligible(r) => similarity_matrix[r][BestCol(i)] = 0)
                   => Accepted(i, BestCol(i))

C4_EligibleAmongZeroed ==
    /\ pc = "done"
    /\ Cardinality({i \in Rows : ~Eligible(i)}) >= 2
    /\ \E i \in Rows :
          /\ Eligible(i)
          /\ Accepted(i, BestCol(i))
          /\ \E r \in Rows \ {i} : similarity_matrix[r][BestCol(i)] >= MIN_SIMILARITY

\* C5: every row index and every column index is either in an accepted
\* pair or in an unmatched set handed back to the caller.  The value
\* handed back is the DataFrame matched_data alone, so an index is handed
\* back, matched or unmatched, only if a row of matched_data mentions it:
\* by its institution, or by the tuition copied from its Scorecard row.
C5_UnmatchedHandedBack ==
    pc = "done" =>
        /\ \A i \in Rows :
              \E k \in DOMAIN matched_data :
                  matched_data[k].institution = arwu_names[i]
        /\ \A j \in Cols :
              \E k \in DOMAIN matched_data : matched_data[k].tuition_of_row = j

AllZero(M) == \A i \in DOMAIN M : \A j \in DOMAIN M[i] : M[i][j] = 0

\* C6: on an all-zero similarity matrix match_universities returns no
\* match and raises no error.
C6_AllZeroGivesNoMatch ==
    (pc \in {"filtered", "assigned", "done", "error"} /\ AllZero(similarity_matrix))
        => /\ pc # "error"
           /\ pc = "done" => matches = <<>>

\* C27: every accepted pair (i, j) pairs row i with its own best-scoring
\* column: similarity(i, j) is the maximum of row i; of two eligible rows
\* with the same best column the loser is left unmatched, not accepted
\* with its runner-up column.
C27_AcceptedIsRowBest ==
    pc = "done" =>
        \A k \in DOMAIN matches :
            similarity_matrix[matches[k].arwu_index][matches[k].scorecard_index]
                = RowMax(similarity_matrix[matches[k].arwu_index])

(***************************************************************************)
(* Properties of compute_similarity_matrix and of the whole matcher.       *)
(***************************************************************************)
Computed == pc \in {"computed", "filtered", "assigned", "done", "error"}

EmptyCanon(nm) == canonicalize_name(nm) = <<>>

\* C7: the matcher proceeds on partial data, zero rows on one side
\* included: it completes instead of aborting.
C7_PartialDataProceeds == pc # "error"

\* C8: a name whose canonical form is empty has an all-zero row or column
\* on every path of compute_similarity_matrix and is part of no match.
C8_EmptyCanonUnmatchable ==
    Computed =>
        /\ \A i \in Rows : \A j \in Cols :
              (EmptyCanon(arwu_names[i]) \/ EmptyCanon(scorecard_names[j]))
                  => similarity_matrix[i][j] = 0
        /\ \A k \in DOMAIN matches :
              /\ ~EmptyCanon(matches[k].arwu_name)
              /\ ~EmptyCanon(matches[k].scorecard_name)

C8_EmptyNamesBesideMatch ==
    /\ pc = "done"
    /\ sim_path = "fallback"
    /\ Len(matches) >= 1
    /\ \E i \in Rows : arwu_names[i] # NaN /\ EmptyCanon(arwu_names[i])
    /\ \E j \in Cols : EmptyCanon(scorecard_names[j])

\* C9: a name with a non-empty canonical form that occurs in both lists
\* scores 100 against itself, whatever else the lists contain.
C9_Reflexive ==
    Computed =>
        \A i \in Rows : \A j \in Cols :
            (arwu_names[i] = scorecard_names[j] /\ ~EmptyCanon(arwu_names[i]))
                => similarity_matrix[i][j] = 100

\* C14: with source A = ["Harvard University", "MIT"] and source B =
\* ["Harvard Univ.", "Massachusetts Institute of Technology"] the matcher
\* produces exactly two matches, Harvard with Harvard and MIT with the
\* Massachusetts Institute of Technology.
C14_HarvardAndMitMatched ==
    (/\ pc = "done"
     /\ arwu_names = <<HarvardUniversity, MIT>>
     /\ scorecard_names = <<HarvardUniv, MassachusettsInstituteOfTechnology>>)
        => /\ Len(matches) = 2
           /\ Accepted(1, 1)
           /\ Accepted(2, 2)

\* The non-empty canonical names of both lists.
ValidCanons(names) ==
    {canonicalize_name(names[k]) : k \in DOMAIN names} \ {<<>>}

\* Every token of every canonical name is a single character.
OnlyShortTokens(canons) ==
    \A c \in canons : \A t \in Range(Split(c)) : Len(t) = 1

\* C15: when the TF-IDF vectorizer fails (all names alike, so that no term
\* is left after pruning, or no term at all) the matrix returned is the
\* fallback's: every pair of non-empty canonical names holds the ratio of
\* the two sorted-token strings, and every other entry is 0.
C15_FallbackOnTfidfFailure ==
    pc = "computed" =>
        LET a   == ValidCanons(arwu_names)
            b   == ValidCanons(scorecard_names)
            all == a \cup b
        IN  /\ (a # {} /\ b # {} /\ (Cardinality(all) = 1 \/ OnlyShortTokens(all)))
                  => sim_path = "fallback"
            /\ sim_path = "fallback" =>
                  \A i \in Rows : \A j \in Cols :
                      LET canon_a == canonicalize_name(arwu_names[i])
                          canon_s == canonicalize_name(scorecard_names[j])
                      IN  similarity_matrix[i][j] =
                              IF canon_a # <<>> /\ canon_s # <<>>
                              THEN Ratio(canon_a, canon_s)
                              ELSE 0

C15_FallbackWithPartialRatio ==
    /\ pc = "computed"
    /\ sim_path = "fallback"
    /\ \E i \in Rows : \E j \in Cols :
          similarity_matrix[i][j] > 0 /\ similarity_matrix[i][j] < 100
    /\ \E i \in Rows : EmptyCanon(arwu_names[i])

C10_Idempotent == cpc = "twice" => canon = name

\* The multiset of the tokens of ts: how often each one occurs.
BagOf(ts) == [t \in Range(ts) |-> Cardinality({k \in DOMAIN ts : ts[k] = t})]

\* C11: two names with the same multiset of tokens after abbreviation
\* expansion and stop-word removal have equal canonical forms.
C11_OrderInsensitive ==
    (cpc = "both"
        /\ BagOf(SurvivingTokens(name)) = BagOf(SurvivingTokens(other)))
        => canon = other_canon

C11_NewYorkCityCollege ==
    /\ cpc = "both"
    /\ name = NewYorkCityCollege
    /\ other = CityCollegeOfNewYork
    /\ SurvivingTokens(name) # SurvivingTokens(other)
    /\ canon = <<"c","i","t","y"," ","n","e","w"," ","y","o","r","k">>

IsSortedList(ts) == \A k \in 1..(Len(ts) - 1) : StrLeq(ts[k], ts[k + 1])

\* C12: the value canonicalize_name returns is its surviving tokens, in
\* lexicographic order, joined by single spaces; none of them is a stop
\* word; it is the empty string when the input is null or empty or when no
\* token survives.
C12_SortedJoinedTokens ==
    cpc = "once" =>
        LET ts == Split(canon)
            surviving == IF name = NaN THEN <<>> ELSE SurvivingTokens(name)
        IN  /\ canon = Join(ts)
            /\ IsSortedList(ts)
            /\ \A k \in DOMAIN ts : ts[k] \notin stop_words
            /\ BagOf(ts) = BagOf(surviving)
            /\ (name \in {NaN, <<>>} \/ surviving = <<>>) => canon = <<>>

C12_TokensReordered ==
    /\ cpc = "once"
    /\ Len(Split(canon)) >= 2
    /\ SurvivingTokens(name) # Split(canon)

\* The keys of self.abbreviations.
AbbreviationKeys == {abbreviations[k][1] : k \in DOMAIN abbreviations}

\* A token without the punctuation at its ends.
RECURSIVE TrimPunctuation(_)
TrimPunctuation(t) ==
    IF t = <<>> THEN t
    ELSE IF ~IsWord(Head(t)) THEN TrimPunctuation(Tail(t))
    ELSE IF ~IsWord(t[Len(t)]) THEN TrimPunctuation(SubSeq(t, 1, Len(t) - 1))
    ELSE t

\* C13: abbreviation expansion rewrites whole tokens only: a token of the
\* name that the expansion step changes is an abbreviation key (with or
\* without punctuation at its ends); a key inside a longer token, as in
\* "technical" or "a&m", leaves the token as it is.
C13_WholeTokensOnly ==
    (cpc = "once" /\ name # NaN) =>
        LET before == Split(BasicCleaning(name))
            after  == Split(ExpandAbbreviations(BasicCleaning(name), 1))
        IN  /\ Len(after) = Len(before)
            /\ \A k \in DOMAIN before :
                  after[k] # before[k] =>
                      \/ before[k] \in AbbreviationKeys
                      \/ TrimPunctuation(before[k]) \in AbbreviationKeys

(***************************************************************************)
(* Properties of the value / percentile analyzers.                         *)
(***************************************************************************)
Scored == apc = "scored" /\ analyzer \in RankAnalyzers

\* The rows of the country of row x.
Compatriots(x) == RowsOf(df, df[x].country)

\* C17: a percentile over a population of one record (or none) yields no
\* value, for the global percentile and for each per-country percentile;
\* the single record is never given 50 or 100.
C17_SingletonYieldsNoValue ==
    Scored =>
        \A x \in DOMAIN df :
            /\ Len(df) <= 1 =>
                  /\ ~IsNumber(scores[x].rank_percentile)
                  /\ ~IsNumber(scores[x].price_percentile)
            /\ Cardinality(Compatriots(x)) <= 1 =>
                  /\ ~IsNumber(scores[x].country_rank_percentile)
                  /\ ~IsNumber(scores[x].country_price_percentile)

DistinctRanks == \A x, y \in DOMAIN df : x # y => df[x].rank # df[y].rank

\* C18: in a population of n >= 2 distinct ranks, rank_percentile is
\* 100 * (1 - (rank_position - 1) / (n - 1)), which is
\* 100 * (n - rank_position) / (n - 1): 100 for the best-ranked record, 0
\* for the worst-ranked, whatever the rank numbers are.
C18_PositionFormula ==
    (Scored /\ Len(df) >= 2 /\ DistinctRanks) =>
        \A x \in DOMAIN df :
            LET rank_position ==
                    1 + Cardinality({y \in DOMAIN df : df[y].rank < df[x].rank})
            IN  scores[x].rank_percentile =
                    FScale(100, Div(Len(df) - rank_position, Len(df) - 1))

C20_ValueScoreFormula ==
    apc = "scored" =>
        /\ analyzer = "comprehensive_analysis" =>
              \A x, y \in DOMAIN df :
                  /\ scores[x].value_score =
                        Weighted(6, 4, scores[x].rank_percentile,
                                 FSub(FromInt(100), scores[x].price_percentile))
                  /\ df[x].price_usd < df[y].price_usd =>
                        FLeq(scores[x].price_percentile, scores[y].price_percentile)
                  /\ (df[x].rank = df[y].rank /\ df[x].price_usd < df[y].price_usd)
                        => FLeq(scores[y].value_score, scores[x].value_score)
        /\ analyzer = "final_analysis_scorecard_rankings" =>
              \A x, y \in DOMAIN df :
                  /\ scores[x].value_score =
                        Weighted(6, 4, FromInt(df[x].overall_quality_score),
                                 scores[x].price_score)
                  /\ (/\ df[x].overall_quality_score = df[y].overall_quality_score
                      /\ df[x].price_usd < df[y].price_usd)
                        => FLeq(scores[y].value_score, scores[x].value_score)

\* a is a number of [0, 100].
InPercentRange(a) ==
    IsNumber(a) /\ FLeq(FromInt(0), a) /\ FLeq(a, FromInt(100))

\* The script computes country-specific columns for row x.
CountryScored(x) ==
    analyzer = "real_sweet_spot_analysis" => Cardinality(Compatriots(x)) > 1

\* C21: for every record of every population, global or of one country, of
\* any size >= 1, with or without ties, rank_percentile and
\* price_percentile are numbers of [0, 100] and so is value_score.
C21_ScoresWithinBounds ==
    Scored =>
        \A x \in DOMAIN df :
            /\ InPercentRange(scores[x].rank_percentile)
            /\ InPercentRange(scores[x].price_percentile)
            /\ InPercentRange(scores[x].value_score)
            /\ CountryScored(x) =>
                  /\ InPercentRange(scores[x].country_rank_percentile)
                  /\ InPercentRange(scores[x].country_price_percentile)
                  /\ InPercentRange(scores[x].country_value_score)

\* The columns the script a computes for row x of the table P.
ScoresOf(a, P, x) ==
    CASE a \in {"comprehensive_analysis", "real_data_analysis"} -> RankBasedScores(P, x)
      [] a = "find_sweet_spot" -> MinMaxScores(P, x, 1)
      [] a = "real_sweet_spot_analysis" -> MinMaxScores(P, x, 2)

\* P without its row y.
RemoveRow(P, y) == SubSeq(P, 1, y - 1) \o SubSeq(P, y + 1, Len(P))

\* The tables one step away from P that have the same rows of country c:
\* a record of another country is added, removed or changed.
OtherCountryEdits(P, c) ==
    LET others == {r \in RankedRecords : r.country # c}
        foreign == {y \in DOMAIN P : P[y].country # c}
    IN  {Append(P, r) : r \in others}
          \cup {RemoveRow(P, y) : y \in foreign}
          \cup {[P EXCEPT ![y] = r] : y \in foreign, r \in others}

\* The country-specific columns of the rows of country c, in row order.
RECURSIVE CountryColumns(_, _, _, _)
CountryColumns(a, P, c, x) ==
    IF x > Len(P) THEN <<>>
    ELSE (IF P[x].country = c
          THEN LET sc == ScoresOf(a, P, x)
               IN  <<<<sc.country_rank_percentile, sc.country_price_percentile,
                       sc.country_value_score>>>>
          ELSE <<>>) \o CountryColumns(a, P, c, x + 1)

\* The same columns as the scored table holds them.
RECURSIVE ScoredCountryColumns(_, _)
ScoredCountryColumns(c, x) ==
    IF x > Len(df) THEN <<>>
    ELSE (IF df[x].country = c
          THEN <<<<scores[x].country_rank_percentile,
                   scores[x].country_price_percentile,
                   scores[x].country_value_score>>>>
          ELSE <<>>) \o ScoredCountryColumns(c, x + 1)

\* The country-specific columns of a record do not change when a record of
\* another country is added, removed or changed.
CountryScoresIndependent ==
    Scored =>
        \A c \in Countries :
            \A Q \in OtherCountryEdits(df, c) :
                CountryColumns(analyzer, Q, c, 1) = ScoredCountryColumns(c, 1)

\* C22: the country-specific rank percentile, price percentile and value
\* score of a record depend only on the records of the same country, and
\* every record of a listed country receives a country-specific score.
C22_PerCountryIndependent ==
    /\ CountryScoresIndependent
    /\ Scored =>
          \A x \in DOMAIN df :
              CountryScored(x) =>
                  /\ IsNumber(scores[x].country_rank_percentile)
                  /\ IsNumber(scores[x].country_price_percentile)
                  /\ IsNumber(scores[x].country_value_score)

\* The rows of P whose cell in column col is not empty.
PresentRows(P, col) == {y \in DOMAIN P : P[y][col] # Missing}

\* C23: a record with a missing rank or a missing price is left out of the
\* percentile computation of that dimension: its own percentile has no
\* value, the other records are scaled by the number n of records that have
\* the value, globally and per country, and a missing price is not turned
\* into 0.
C23_MissingExcluded ==
    apc = "scored" =>
        /\ analyzer \in {"comprehensive_analysis", "real_data_analysis"} =>
              \A x \in DOMAIN df :
                  LET ranked == PresentRows(df, "rank")
                      priced == PresentRows(df, "price_usd")
                      own == Compatriots(x)
                  IN  /\ x \notin ranked =>
                            /\ ~IsNumber(scores[x].rank_percentile)
                            /\ ~IsNumber(scores[x].country_rank_percentile)
                      /\ x \notin priced =>
                            /\ ~IsNumber(scores[x].price_percentile)
                            /\ ~IsNumber(scores[x].country_price_percentile)
                      /\ x \in ranked =>
                            /\ scores[x].rank_percentile
                                  = RankPercentile(df, ranked, x)
                            /\ scores[x].country_rank_percentile
                                  = RankPercentile(df, ranked \cap own, x)
                      /\ x \in priced =>
                            /\ scores[x].price_percentile
                                  = PricePercentile(df, priced, x)
                            /\ scores[x].country_price_percentile
                                  = PricePercentile(df, priced \cap own, x)
        /\ analyzer = "collect_real_data" =>
              \A x \in DOMAIN df :
                  (df[x].tuition_in_state_usd = Missing
                      /\ df[x].uk_intl_fee_gbp = Missing)
                    => ~IsNumber(scores[x].price_usd)

\* C24: the correlation summary has no coefficient for a country with
\* n <= 3 records, in every analyzer that computes per-country
\* correlations; a country with more records, and the whole population when
\* it has more, get their coefficients.
C24_SmallGroupsOmitted ==
    apc \in {"correlated", "error"} =>
        /\ \A c \in Countries :
              c \in DOMAIN correlations <=> GroupSize(df, c) > MinGroup
        /\ Len(df) > MinGroup => "overall" \in DOMAIN correlations

(***************************************************************************)
(* Properties of the collectors.                                           *)
(***************************************************************************)
\* After the request at k of the log and before the next request there is
\* a delay.
DelayAfter(k) ==
    k < Len(http_log) => http_log[k + 1].op \in {"sleep", "backoff"}

\* The request at k of the log met a transient error and is retried after a
\* backoff, unless the RetryTotal retries are used up.
RetriedAfter(k) ==
    http_log[k].arg \in status_forcelist =>
        \/ k < Len(http_log) /\ http_log[k + 1].op = "backoff"
        \/ k > 1 /\ http_log[k - 1] = Backoff(RetryTotal)

\* C25: between any two consecutive HTTP requests of a collector loop there
\* is a delay, also after a request that failed, and a request that meets
\* a transient HTTP error (5xx, 429) is retried, at most RetryTotal = 5
\* times, with a backoff before each retry.
C25_DelayAndBoundedRetry ==
    \A k \in DOMAIN http_log :
        /\ http_log[k].op = "get" => DelayAfter(k) /\ RetriedAfter(k)
        /\ http_log[k].op = "backoff" => http_log[k].arg <= RetryTotal

(***************************************************************************)
(* Properties of prepare_data.                                             *)
(***************************************************************************)
\* The values of row k of the US file, and of the UK file, are both there.
UsComplete(k) == df.us_data[k].tuition # Missing /\ df.us_data[k].ranking # Missing

UkComplete(k) ==
    df.uk_data[k].intl_tuition # Missing /\ df.uk_data[k].composite_rank # Missing

\* C26: every row of the combined dataset has a price_usd and a rank, its
\* country is 'US' or 'UK', and every row of the two files that has both
\* values is in it.
C26_CombinedComplete ==
    apc = "prepared" =>
        /\ \A x \in DOMAIN combined_data :
              /\ IsNumber(combined_data[x].price_usd)
              /\ combined_data[x].rank # Missing
              /\ combined_data[x].country \in {"US", "UK"}
        /\ \A k \in DOMAIN df.us_data :
              UsComplete(k) =>
                  \E x \in DOMAIN combined_data :
                      combined_data[x] =
                          [name |-> k, country |-> "US",
                           price_usd |-> FromInt(df.us_data[k].tuition),
                           rank |-> df.us_data[k].ranking]
        /\ \A k \in DOMAIN df.uk_data :
              UkComplete(k) =>
                  \E x \in DOMAIN combined_data :
                      combined_data[x] =
                          [name |-> k, country |-> "UK",
                           price_usd |-> Frac(GbpToUsdHundredths
                                                * df.uk_data[k].intl_tuition, 100),
                           rank |-> df.uk_data[k].composite_rank]

\* A file of each country with a complete row and a row that is dropped.
C26_KeptAndDropped ==
    /\ apc = "prepared"
    /\ \E k, l \in DOMAIN df.us_data : UsComplete(k) /\ ~UsComplete(l)
    /\ \E k, l \in DOMAIN df.uk_data : UkComplete(k) /\ ~UkComplete(l)
    /\ Len(combined_data) = 2

\* The collector has returned.
Returned(c) == collector = c /\ kpc = "done"

\* The approaches tried so far, in order.
TriedApproaches == [k \in DOMAIN http_log |-> http_log[k].op]

\* The k-th approach tried raised, or handed back an empty table or one
\* without a US/UK row.
Failed(k) ==
    http_log[k].arg = "raised" \/ UsUkRows(http_log[k].table) = <<>>

\* C28: fetch_arwu_rankings tries its sources in the order JSON API,
\* scraped webpage, hard-coded table, a later one only after every earlier
\* one raised, handed back an empty table or no US/UK row; it never
\* raises; what it returns has only rows of the United States and the
\* United Kingdom, and is empty only if all three sources failed.
C28_SourcesInOrder ==
    collector = "fetch_arwu_rankings" =>
        /\ TriedApproaches = SubSeq(approaches, 1, Len(http_log))
        /\ \A k \in DOMAIN http_log : k < Len(http_log) => Failed(k)
        /\ kpc \in {"loop", "done"}
        /\ kpc = "loop" => \A k \in DOMAIN http_log : Failed(k)
        /\ kpc = "done" =>
              /\ ~Failed(Len(http_log))
              /\ returned = UsUkRows(http_log[Len(http_log)].table)
              /\ \A x \in DOMAIN returned :
                    returned[x].country \in {"United States", "United Kingdom"}
              /\ returned = <<>> => \A k \in DOMAIN approaches : Failed(k)

\* The JSON API handed back only universities of other countries, the
\* webpage raised, and the US/UK rows of the hard-coded table are returned.
C28_FellBackToTable ==
    /\ Returned("fetch_arwu_rankings")
    /\ Len(http_log) = 3
    /\ http_log[1].arg = "table" /\ http_log[1].table # <<>>
    /\ http_log[2].arg = "raised"
    /\ returned = MockTable

\* The places of the log that hold a request.
Requests == {k \in DOMAIN http_log : http_log[k].op = "get"}

\* The rows of the valid universities of the pages fetched, in order.
RECURSIVE RowsFetched(_)
RowsFetched(k) ==
    IF k > Len(http_log) THEN <<>>
    ELSE (IF http_log[k].op = "get" /\ http_log[k].valid = 1
          THEN <<Row("scorecard", http_log[k].page)>>
          ELSE <<>>) \o RowsFetched(k + 1)

\* What holds all along a run of a paginated collector.
PaginatedSafe ==
    /\ Cardinality(Requests) <= limit
    /\ \A k \in Requests :
          /\ http_log[k].page = Cardinality({l \in Requests : l < k})
          /\ (http_log[k].arg # 200 \/ http_log[k].results = 0)
                => k = Len(http_log) /\ kpc \in {"stopped", "done"}
    /\ collected = RowsFetched(1)
    /\ kpc = "done" => returned = RowsFetched(1)

\* C29: a paginated Scorecard collector makes at most max_pages requests,
\* for pages 0, 1, 2, ... in order, stops at the first page without
\* results or the first failed request, returns the rows of all pages
\* fetched before the stop, and does return.
C29_PaginationTerminates ==
    /\ []PaginatedSafe
    /\ <>(kpc = "done")

\* A page of valid universities was fetched, the next request failed, and
\* the rows of the first page are returned.
C29_RowsKeptAfterFailure ==
    /\ kpc = "done"
    /\ Len(returned) >= 1
    /\ http_log[Len(http_log)].op = "get"
    /\ http_log[Len(http_log)].arg \in ErrorStatuses

\* The last request met an error status or no answer at all.
EndedInError ==
    /\ http_log # <<>>
    /\ http_log[Len(http_log)].op = "get"
    /\ http_log[Len(http_log)].arg # 200

\* What holds all along a run of collect_uk_discover_uni_data: the loop is
\* left for the aggregation or for the except branch, and after an error
\* or without courses the hard-coded table is what is returned.
DiscoverUniSafe ==
    /\ kpc \in {"loop", "aggregate", "done"}
    /\ kpc = "done" /\ (EndedInError \/ collected = <<>>) => returned = UkFallback
    /\ kpc = "aggregate" => ~EndedInError

\* C30: the pagination loop of collect_uk_discover_uni_data ends for every
\* sequence of server responses and the function returns, with the
\* hard-coded table after an error or without courses.
C30_DiscoverUniTerminates ==
    /\ []DiscoverUniSafe
    /\ <>(kpc = "done")

====
